---- MODULE Spec2Model ----
(***************************************************************************)
(* borgmarks: the Firefox bookmark-store reconciliation engine.            *)
(*                                                                         *)
(* The model covers PlacesDB (src/borgmarks/places_db.py), the URL         *)
(* normaliser (src/borgmarks/url_norm.py) and the orchestrator             *)
(* apply_bookmarks_to_firefox (src/borgmarks/firefox_sync.py).             *)
(*                                                                         *)
(* Text (folder titles, link titles, tag names, URLs) is a sequence of     *)
(* one-character strings, so that strip(), lower(), isalnum() and the      *)
(* key functions are computed character by character as the code does.    *)
(* The database is a record of two tables, each a function from the row   *)
(* ids present to the row.  A NULL foreign key is 0, as in the code's      *)
(* `int(r["fk"] or 0)`.                                                    *)
(***************************************************************************)
EXTENDS Integers, Sequences, FiniteSets, TLC

VARIABLES db, pre, last, prev, steps, fav, prefav, run, readonly, handle, walk

vars == <<db, pre, last, prev, steps, fav, prefav, run, readonly, handle, walk>>

-----------------------------------------------------------------------------
(* Bounds of the model.                                                    *)

\* number of calls explored after the initial store
MaxSteps == 2
\* largest number of link rows in an enumerated initial store (DedupeSpec)
MaxSeedLinks == 3
\* largest number of mapping rows in an enumerated icon store (IconDedupeSpec)
MaxSeedMaps == 2

-----------------------------------------------------------------------------
(* Characters and strings.                                                 *)

UpperChars == {"A", "B", "C", "D", "M", "O", "T", "V"}

LowerChars ==
    {"a", "b", "c", "d", "e", "f", "g", "h", "i", "j", "k", "l", "m", "n", "o", "p", "q",
     "r", "s", "t", "u", "v", "w", "x", "y", "z"}

\* str.isalnum() on the characters the model uses
IsAlnum(ch) == ch \in UpperChars \cup LowerChars

\* str.isspace()
IsSpace(ch) == ch = " "

\* str.lower() on one character
LowerCh(ch) ==
    CASE ch = "A" -> "a"
      [] ch = "B" -> "b"
      [] ch = "C" -> "c"
      [] ch = "D" -> "d"
      [] ch = "M" -> "m"
      [] ch = "O" -> "o"
      [] ch = "T" -> "t"
      [] ch = "V" -> "v"
      [] OTHER -> ch

\* str.lower()
Lower(s) == [i \in 1..Len(s) |-> LowerCh(s[i])]

RECURSIVE LStrip(_)
\* str.lstrip()
LStrip(s) == IF s # <<>> /\ IsSpace(Head(s)) THEN LStrip(Tail(s)) ELSE s

RECURSIVE RStrip(_)
\* str.rstrip()
RStrip(s) ==
    IF s # <<>> /\ IsSpace(s[Len(s)]) THEN RStrip(SubSeq(s, 1, Len(s) - 1)) ELSE s

\* str.strip()
Strip(s) == RStrip(LStrip(s))

RECURSIVE DropLeadingNonAlnum(_)
\* while s and not s[0].isalnum(): s = s[1:].lstrip()
DropLeadingNonAlnum(s) ==
    IF s # <<>> /\ ~IsAlnum(Head(s)) THEN DropLeadingNonAlnum(LStrip(Tail(s))) ELSE s

RECURSIVE CollapseLower(_, _)
\* the character loop of _folder_component_key: whitespace runs become one
\* space, every other character is lower-cased
CollapseLower(s, prev_space) ==
    IF s = <<>> THEN <<>>
    ELSE IF IsSpace(Head(s))
         THEN (IF prev_space THEN <<>> ELSE <<" ">>) \o CollapseLower(Tail(s), TRUE)
         ELSE <<LowerCh(Head(s))>> \o CollapseLower(Tail(s), FALSE)

\* the key of a name whose leading symbols are kept
_folder_component_key_keeping_prefix(name) ==
    Strip(CollapseLower(Strip(name), FALSE))

_folder_component_key(name) ==
    Strip(CollapseLower(DropLeadingNonAlnum(Strip(name)), FALSE))

RECURSIVE AlnumLower(_)
AlnumLower(s) ==
    IF s = <<>> THEN <<>>
    ELSE (IF IsAlnum(Head(s)) THEN <<LowerCh(Head(s))>> ELSE <<>>) \o AlnumLower(Tail(s))

_root_alias_key(name) == AlnumLower(DropLeadingNonAlnum(Strip(name)))

_has_leading_emoji(name) ==
    LET s == Strip(name) IN s # <<>> /\ ~IsAlnum(Head(s))

-----------------------------------------------------------------------------
(* URLs (url_norm.py).  A URL is a sequence of tokens: path characters,    *)
(* then optionally "?" and query items separated by "&" (an item is a key  *)
(* token, optionally "=" and a value), then optionally "#" and a fragment. *)

TRACKING_KEYS_EXACT == {"fbclid", "gclid", "mc_cid", "mc_eid"}

\* the key tokens of the model that start with the prefix "utm_"
UtmKeys == {"utm_source"}

RECURSIVE Before(_, _)
\* the part of s before the first occurrence of ch
Before(s, ch) ==
    IF s = <<>> \/ Head(s) = ch THEN <<>> ELSE <<Head(s)>> \o Before(Tail(s), ch)

RECURSIVE After(_, _)
\* the part of s after the first occurrence of ch (empty when there is none)
After(s, ch) ==
    IF s = <<>> THEN <<>> ELSE IF Head(s) = ch THEN Tail(s) ELSE After(Tail(s), ch)

RECURSIVE parse_qsl(_)
\* parse_qsl(query, keep_blank_values=True): the (key, value) pairs of the
\* non-empty items
parse_qsl(q) ==
    IF q = <<>> THEN <<>>
    ELSE LET item == Before(q, "&")
             rest == After(q, "&")
         IN  (IF item = <<>> THEN <<>>
              ELSE << <<Before(item, "="), After(item, "=")>> >>) \o parse_qsl(rest)

\* the filter of normalize_url: is the key a tracking key?
IsTrackingKey(k) ==
    \/ Lower(k) \in {<<x>> : x \in TRACKING_KEYS_EXACT}
    \/ (k # <<>> /\ LowerCh(Head(k)) \in UtmKeys)

RECURSIVE urlencode(_)
\* urlencode(items): key=value joined by "&"
urlencode(items) ==
    IF items = <<>> THEN <<>>
    ELSE Head(items)[1] \o <<"=">> \o Head(items)[2]
         \o (IF Tail(items) = <<>> THEN <<>> ELSE <<"&">> \o urlencode(Tail(items)))

normalize_url(url) ==
    LET nofrag == Before(url, "#")
        path == Before(nofrag, "?")
        items == parse_qsl(After(nofrag, "?"))
        kept == SelectSeq(items, LAMBDA it : ~IsTrackingKey(it[1]))
        new_query == urlencode(kept)
    IN  path \o (IF new_query = <<>> THEN <<>> ELSE <<"?">> \o new_query)

-----------------------------------------------------------------------------
(* The bookmark database: moz_places and moz_bookmarks.                    *)

\* moz_bookmarks.type
TypeLink == 1
TypeFolder == 2

\* moz_bookmarks_roots of the store (the fixture of the repository's tests)
root_ids == [toolbar |-> 3, menu |-> 2, tags |-> 4, unfiled |-> 5, mobile |-> 6]

RootIdSet == {root_ids[n] : n \in DOMAIN root_ids}

\* _ROOT_ALIASES: alias key -> root name
_ROOT_ALIASES ==
    {<< <<"b","o","o","k","m","a","r","k","s","t","o","o","l","b","a","r">>, "toolbar">>,
     << <<"t","o","o","l","b","a","r">>, "toolbar">>,
     << <<"b","o","o","k","m","a","r","k","s","m","e","n","u">>, "menu">>,
     << <<"m","e","n","u">>, "menu">>,
     << <<"o","t","h","e","r","b","o","o","k","m","a","r","k","s">>, "unfiled">>,
     << <<"u","n","f","i","l","e","d">>, "unfiled">>,
     << <<"m","o","b","i","l","e","b","o","o","k","m","a","r","k","s">>, "mobile">>,
     << <<"m","o","b","i","l","e">>, "mobile">>,
     << <<"t","a","g","s">>, "tags">>}

SetMax(S) == CHOOSE x \in S : \A y \in S : y <= x

SetMin(S) == CHOOSE x \in S : \A y \in S : x <= y

RECURSIVE SortedSeq(_)
\* the elements of a finite set of integers in increasing order (ORDER BY id)
SortedSeq(S) ==
    IF S = {} THEN <<>> ELSE <<SetMin(S)>> \o SortedSeq(S \ {SetMin(S)})

\* c.lastrowid of an INSERT into a rowid table: one more than the largest id
NextRowId(table) == IF DOMAIN table = {} THEN 1 ELSE SetMax(DOMAIN table) + 1

BookmarkIds(d) == DOMAIN d.bookmarks

PlaceIds(d) == DOMAIN d.places

FolderIds(d) == {i \in BookmarkIds(d) : d.bookmarks[i].type = TypeFolder}

LinkIds(d) == {i \in BookmarkIds(d) : d.bookmarks[i].type = TypeLink}

\* _bookmark_tree_maps()[0]: parent_map.get(id, 0)
ParentOf(d, id) == IF id \in BookmarkIds(d) THEN d.bookmarks[id].parent ELSE 0

RECURSIVE DescendsWalk(_, _, _, _)
DescendsWalk(d, current, ancestor_id, seen) ==
    IF current = 0 \/ current \in seen THEN FALSE
    ELSE IF current = ancestor_id THEN TRUE
    ELSE DescendsWalk(d, ParentOf(d, current), ancestor_id, seen \cup {current})

_descends_from(d, node_id, ancestor_id) == DescendsWalk(d, node_id, ancestor_id, {})

\* folder_parent.get(id, 0) of _tag_names_by_fk: the map holds folders only
FolderParentOf(d, id) == IF id \in FolderIds(d) THEN d.bookmarks[id].parent ELSE 0

RECURSIVE NearestTagWalk(_, _, _, _)
NearestTagWalk(d, current, tags_root_id, seen) ==
    IF current = 0 \/ current \in seen THEN <<>>
    ELSE IF FolderParentOf(d, current) = tags_root_id
         THEN (IF current \in FolderIds(d) THEN Strip(d.bookmarks[current].title) ELSE <<>>)
         ELSE NearestTagWalk(d, FolderParentOf(d, current), tags_root_id, seen \cup {current})

_nearest_tag_folder_name(d, folder_id, tags_root_id) ==
    NearestTagWalk(d, folder_id, tags_root_id, {})

\* _tag_names_by_fk(rows, parent_map).get(fk, set())
_tag_names_by_fk(d, fk) ==
    {Lower(_nearest_tag_folder_name(d, d.bookmarks[i].parent, root_ids.tags)) :
        i \in {j \in LinkIds(d) :
                  /\ d.bookmarks[j].fk = fk
                  /\ d.bookmarks[j].fk > 0
                  /\ _descends_from(d, j, root_ids.tags)
                  /\ _nearest_tag_folder_name(d, d.bookmarks[j].parent, root_ids.tags) # <<>>}}

\* the LEFT JOIN of read_all: the url of the row's place, "" when there is none
JoinedUrl(d, i) ==
    IF d.bookmarks[i].fk \in PlaceIds(d) THEN Strip(d.places[d.bookmarks[i].fk].url) ELSE <<>>

JoinedHidden(d, i) ==
    IF d.bookmarks[i].fk \in PlaceIds(d) THEN d.places[d.bookmarks[i].fk].hidden ELSE 0

\* url.startswith("place:"): the scheme of a stored query is one token
IsQueryUrl(url) == url # <<>> /\ Head(url) = "place:"

\* the ids read_all(include_tag_links=False) returns
ReadAllIds(d) ==
    {i \in LinkIds(d) :
        /\ JoinedUrl(d, i) # <<>>
        /\ ~IsQueryUrl(JoinedUrl(d, i))
        /\ JoinedHidden(d, i) = 0
        /\ ~_descends_from(d, i, root_ids.tags)}

\* _ROOT_LABELS
_ROOT_LABELS ==
    [toolbar |-> <<"B", "o", "o", "k", "m", "a", "r", "k", "s", " ", "T", "o", "o", "l", "b", "a", "r">>,
     menu |-> <<"B", "o", "o", "k", "m", "a", "r", "k", "s", " ", "M", "e", "n", "u">>,
     unfiled |-> <<"O", "t", "h", "e", "r", " ", "B", "o", "o", "k", "m", "a", "r", "k", "s">>,
     mobile |-> <<"M", "o", "b", "i", "l", "e", " ", "B", "o", "o", "k", "m", "a", "r", "k", "s">>,
     tags |-> <<"T", "a", "g", "s">>]

RECURSIVE FolderPathWalk(_, _, _)
\* the loop of _folder_path, with the list already reversed: a root ends the
\* walk with its label, a folder adds its stripped title unless it is empty
FolderPathWalk(d, current, seen) ==
    IF current = 0 \/ current \in seen THEN <<>>
    ELSE IF current \in RootIdSet
    THEN <<_ROOT_LABELS[CHOOSE n \in DOMAIN root_ids : root_ids[n] = current]>>
    ELSE FolderPathWalk(d, ParentOf(d, current), seen \cup {current})
         \o (IF current \in FolderIds(d) /\ Strip(d.bookmarks[current].title) # <<>>
             THEN <<Strip(d.bookmarks[current].title)>> ELSE <<>>)

_folder_path(d, folder_id) == FolderPathWalk(d, folder_id, {})

-----------------------------------------------------------------------------
(* The ancestor walks, one loop iteration at a time.  A walk is            *)
(* [fn, node, ancestor, current, seen, out, pc, result]: the method, its   *)
(* arguments, the loop's locals, "loop" while the while loop runs and      *)
(* "done" once the method has returned result.                             *)

NoWalk ==
    [fn |-> "none", node |-> 0, ancestor |-> 0, current |-> 0, seen |-> {}, out |-> <<>>,
     pc |-> "idle", result |-> <<>>]

\* the locals at the head of the loop: current = node, seen = set()
EnterWalk(fn, node, ancestor) ==
    [NoWalk EXCEPT !.fn = fn, !.node = node, !.ancestor = ancestor, !.current = node,
                   !.pc = "loop"]

Return(w, result) == [w EXCEPT !.pc = "done", !.result = result]

\* `while current and current not in seen`
WalkGoesOn(w) == w.current # 0 /\ w.current \notin w.seen

\* out.reverse()
Reversed(s) == [k \in 1..Len(s) |-> s[Len(s) + 1 - k]]

\* an iteration of _descends_from without seen.add(current)
DescendsIteration_forgetting(d, w) ==
    IF ~WalkGoesOn(w) THEN Return(w, FALSE)
    ELSE IF w.current = w.ancestor THEN Return(w, TRUE)
    ELSE [w EXCEPT !.current = ParentOf(d, w.current)]

\* one iteration of _descends_from
DescendsIteration(d, w) ==
    IF ~WalkGoesOn(w) THEN Return(w, FALSE)
    ELSE IF w.current = w.ancestor THEN Return(w, TRUE)
    ELSE [w EXCEPT !.seen = @ \cup {w.current}, !.current = ParentOf(d, w.current)]

\* one iteration of _nearest_tag_folder_name (ancestor is tags_root_id)
NearestTagIteration(d, w) ==
    IF ~WalkGoesOn(w) THEN Return(w, <<>>)
    ELSE IF FolderParentOf(d, w.current) = w.ancestor
    THEN Return([w EXCEPT !.seen = @ \cup {w.current}],
                IF w.current \in FolderIds(d) THEN Strip(d.bookmarks[w.current].title)
                ELSE <<>>)
    ELSE [w EXCEPT !.seen = @ \cup {w.current}, !.current = FolderParentOf(d, w.current)]

\* one iteration of _folder_path
FolderPathIteration(d, w) ==
    IF ~WalkGoesOn(w) THEN Return(w, Reversed(w.out))
    ELSE IF w.current \in RootIdSet
    THEN Return([w EXCEPT !.seen = @ \cup {w.current}],
                Reversed(Append(w.out,
                    _ROOT_LABELS[CHOOSE n \in DOMAIN root_ids : root_ids[n] = w.current])))
    ELSE [w EXCEPT !.seen = @ \cup {w.current},
                   !.out = IF w.current \in FolderIds(d)
                              /\ Strip(d.bookmarks[w.current].title) # <<>>
                           THEN Append(@, Strip(d.bookmarks[w.current].title)) ELSE @,
                   !.current = ParentOf(d, w.current)]

\* one LinkEntry of read_all
LinkEntry(d, i) ==
    [id |-> i,
     parent_id |-> d.bookmarks[i].parent,
     place_id |-> d.bookmarks[i].fk,
     title |-> IF Strip(d.bookmarks[i].title) # <<>>
               THEN Strip(d.bookmarks[i].title) ELSE JoinedUrl(d, i),
     url |-> JoinedUrl(d, i),
     path |-> _folder_path(d, d.bookmarks[i].parent),
     tags |-> _tag_names_by_fk(d, d.bookmarks[i].fk)]

\* read_all(include_tag_links=False): the entries in id order
read_all(d) ==
    LET ids == SortedSeq(ReadAllIds(d))
    IN  [k \in 1..Len(ids) |-> LinkEntry(d, ids[k])]

-----------------------------------------------------------------------------
(* PlacesDB primitives.  Each is an operator from the database (and the    *)
(* arguments) to a result record: the database afterwards, the error       *)
(* raised ("none" when the call returns) and the returned values.          *)
(* Timestamps and guids are not part of the model.                         *)

Ok(d, id) == [db |-> d, err |-> "none", id |-> id, created |-> FALSE]

Raise(d, e) == [db |-> d, err |-> e, id |-> 0, created |-> FALSE]

\* _require_folder: the id names a row of type 2
_require_folder(d, folder_id) == folder_id \in FolderIds(d)

\* _require_link: the id names a row of type 1
_require_link(d, link_id) == link_id \in LinkIds(d)

\* position None is -1
NoPosition == -1

\* the position of the last row under the parent, not the one after it
_resolve_position_at_max(d, parent_id, position) ==
    IF position >= 0 THEN position
    ELSE LET kids == {i \in BookmarkIds(d) : d.bookmarks[i].parent = parent_id}
         IN  IF kids = {} THEN 0
             ELSE SetMax({d.bookmarks[i].position : i \in kids})

_resolve_position(d, parent_id, position) ==
    IF position >= 0 THEN position
    ELSE LET kids == {i \in BookmarkIds(d) : d.bookmarks[i].parent = parent_id}
         IN  IF kids = {} THEN 0
             ELSE SetMax({d.bookmarks[i].position : i \in kids}) + 1

\* _insert_bookmark: the new row, and foreign_count + 1 on its place
_insert_bookmark(d, btype, fk, parent_id, position, title) ==
    LET row_id == NextRowId(d.bookmarks)
        row == [type |-> btype, fk |-> fk, parent |-> parent_id,
                position |-> position, title |-> title]
        places2 == IF fk > 0 /\ fk \in PlaceIds(d)
                   THEN [d.places EXCEPT ![fk].foreign_count = @ + 1]
                   ELSE d.places
    IN  Ok([places |-> places2, bookmarks |-> d.bookmarks @@ (row_id :> row)], row_id)

\* the sibling folders of add_folder whose name key is the requested one
KeyMatches(d, parent_id, name) ==
    {i \in FolderIds(d) :
        /\ d.bookmarks[i].parent = parent_id
        /\ _folder_component_key(Strip(d.bookmarks[i].title)) = _folder_component_key(name)}

add_folder_always_rename(d, parent_id, title) ==
    IF ~_require_folder(d, parent_id) \/ Strip(title) = <<>> THEN Raise(d, "ValueError")
    ELSE IF KeyMatches(d, parent_id, Strip(title)) # {}
    THEN Ok([d EXCEPT !.bookmarks[SetMin(KeyMatches(d, parent_id, Strip(title)))].title
                          = Strip(title)],
            SetMin(KeyMatches(d, parent_id, Strip(title))))
    ELSE _insert_bookmark(d, TypeFolder, 0, parent_id,
                          _resolve_position(d, parent_id, NoPosition), Strip(title))

add_folder(d, parent_id, title) ==
    LET name == Strip(title)
        matches == KeyMatches(d, parent_id, name)
    IN  IF ~_require_folder(d, parent_id) THEN Raise(d, "ValueError")
        ELSE IF name = <<>> THEN Raise(d, "ValueError")
        ELSE IF matches # {}
        THEN LET row == SetMin(matches)
                 existing_title == Strip(d.bookmarks[row].title)
             IN  IF _has_leading_emoji(name) /\ ~_has_leading_emoji(existing_title)
                 THEN Ok([d EXCEPT !.bookmarks[row].title = name], row)
                 ELSE Ok(d, row)
        ELSE _insert_bookmark(d, TypeFolder, 0, parent_id,
                              _resolve_position(d, parent_id, NoPosition), name)

\* _resolve_root_alias: the root id the component names, 0 for None
_resolve_root_alias(component) ==
    LET key == _root_alias_key(component)
        hits == {a \in _ROOT_ALIASES : a[1] = key}
    IN  IF hits = {} THEN 0 ELSE root_ids[(CHOOSE a \in hits : TRUE)[2]]

\* comps = [str(x).strip() for x in folder_path if str(x).strip()]
StripComps(folder_path) ==
    LET stripped == [i \in 1..Len(folder_path) |-> Strip(folder_path[i])]
    IN  SelectSeq(stripped, LAMBDA c : c # <<>>)

RECURSIVE AddFolders(_, _, _)
\* for comp in comps: cur = self.add_folder(cur, name)
AddFolders(d, cur, comps) ==
    IF comps = <<>> THEN Ok(d, cur)
    ELSE LET r == add_folder(d, cur, Head(comps))
         IN  IF r.err # "none" THEN r ELSE AddFolders(r.db, r.id, Tail(comps))

\* ensure_folder_path that resolves every component beneath the starting
\* folder, a root alias included
ensure_folder_path_from_start(d, parent_id, folder_path) ==
    AddFolders(d, parent_id, StripComps(folder_path))

ensure_folder_path(d, parent_id, folder_path) ==
    LET comps == StripComps(folder_path)
        maybe_root_id == IF comps = <<>> THEN 0 ELSE _resolve_root_alias(comps[1])
    IN  IF maybe_root_id # 0
        THEN AddFolders(d, maybe_root_id, Tail(comps))
        ELSE AddFolders(d, parent_id, comps)

\* a handle on which _assert_writable never raises
_assert_writable_skipped(ro, d, r) == r

\* _assert_writable, the first statement of every mutating method: r is what
\* the method does on a read-write handle
_assert_writable(ro, d, r) == IF ro THEN Raise(d, "NotWritable") ELSE r

\* ensure_folder_path on a handle opened with readonly = ro.  The method
\* has no _assert_writable of its own: on a read-only handle the first
\* add_folder of its loop raises, and a path without a component to resolve
\* returns the folder it started from.
ensure_folder_path_on(ro, d, parent_id, folder_path) ==
    LET comps == StripComps(folder_path)
        maybe_root_id == IF comps = <<>> THEN 0 ELSE _resolve_root_alias(comps[1])
        cur == IF maybe_root_id # 0 THEN maybe_root_id ELSE parent_id
        rest == IF maybe_root_id # 0 THEN Tail(comps) ELSE comps
    IN  IF ~ro THEN ensure_folder_path(d, parent_id, folder_path)
        ELSE IF rest = <<>> THEN Ok(d, cur)
        ELSE _assert_writable(ro, d, add_folder(d, cur, Head(rest)))

\* a move that checks neither for roots nor for cycles
move_folder_unchecked(d, folder_id, new_parent_id, position) ==
    IF ~_require_folder(d, folder_id) \/ ~_require_folder(d, new_parent_id)
    THEN Raise(d, "ValueError")
    ELSE Ok([d EXCEPT !.bookmarks[folder_id].parent = new_parent_id,
                      !.bookmarks[folder_id].position =
                          _resolve_position(d, new_parent_id, position)], 0)

\* move_folder: ValueError("cannot move Firefox root folders") is the
\* RootImmutable error, ValueError("cannot move folder into
\* itself/descendant") the CyclicMove error
move_folder(d, folder_id, new_parent_id, position) ==
    IF ~_require_folder(d, folder_id) \/ ~_require_folder(d, new_parent_id)
    THEN Raise(d, "ValueError")
    ELSE IF folder_id \in RootIdSet THEN Raise(d, "RootImmutable")
    ELSE IF _descends_from(d, new_parent_id, folder_id) THEN Raise(d, "CyclicMove")
    ELSE Ok([d EXCEPT !.bookmarks[folder_id].parent = new_parent_id,
                      !.bookmarks[folder_id].position =
                          _resolve_position(d, new_parent_id, position)], 0)

\* the rows of "SELECT id FROM moz_places WHERE url = ?"
PlacesWithUrl(d, url) == {p \in PlaceIds(d) : d.places[p].url = url}

\* _ensure_place: the place of the url (LIMIT 1 answers in rowid order), its
\* empty title filled in; or a new place
_ensure_place(d, url, title) ==
    IF PlacesWithUrl(d, url) # {}
    THEN LET pid == SetMin(PlacesWithUrl(d, url))
         IN  IF title # <<>> /\ d.places[pid].title = <<>>
             THEN Ok([d EXCEPT !.places[pid].title = title], pid)
             ELSE Ok(d, pid)
    ELSE LET pid == NextRowId(d.places)
         IN  Ok([d EXCEPT !.places = @ @@
                     (pid :> [url |-> url, title |-> title, hidden |-> 0,
                              foreign_count |-> 0])], pid)

add_tag(d, tag_name) ==
    IF Strip(tag_name) = <<>> THEN Raise(d, "ValueError")
    ELSE add_folder(d, root_ids.tags, Strip(tag_name))

\* the rows of "SELECT id ... WHERE type = 1 AND parent = ? AND fk = ?"
LinksAt(d, parent_id, fk) ==
    {i \in LinkIds(d) : d.bookmarks[i].parent = parent_id /\ d.bookmarks[i].fk = fk}

\* add_link_tag without the lookup of an existing reference: a row is
\* inserted on every call
add_link_tag_inserting(d, link_id, tag_name) ==
    IF ~_require_link(d, link_id) THEN Raise(d, "ValueError")
    ELSE LET t == add_tag(d, tag_name)
             fk == d.bookmarks[link_id].fk
         IN  IF t.err # "none" THEN t
             ELSE IF fk <= 0 THEN Raise(t.db, "ValueError")
             ELSE [_insert_bookmark(t.db, TypeLink, fk, t.id,
                                    _resolve_position(t.db, t.id, NoPosition),
                                    Strip(d.bookmarks[link_id].title))
                   EXCEPT !.created = TRUE]

add_link_tag(d, link_id, tag_name) ==
    IF ~_require_link(d, link_id) THEN Raise(d, "ValueError")
    ELSE LET t == add_tag(d, tag_name)
             fk == d.bookmarks[link_id].fk
         IN  IF t.err # "none" THEN t
             ELSE IF fk <= 0 THEN Raise(t.db, "ValueError")
             ELSE IF LinksAt(t.db, t.id, fk) # {}
             THEN Ok(t.db, SetMin(LinksAt(t.db, t.id, fk)))
             ELSE [_insert_bookmark(t.db, TypeLink, fk, t.id,
                                    _resolve_position(t.db, t.id, NoPosition),
                                    Strip(d.bookmarks[link_id].title))
                   EXCEPT !.created = TRUE]

RECURSIVE AddTags(_, _, _)
\* for t in tags: if t.strip(): self.add_link_tag(link_id, t.strip())
AddTags(d, link_id, tags) ==
    IF tags = <<>> THEN Ok(d, link_id)
    ELSE IF Strip(Head(tags)) = <<>> THEN AddTags(d, link_id, Tail(tags))
    ELSE LET r == add_link_tag(d, link_id, Strip(Head(tags)))
         IN  IF r.err # "none" THEN r ELSE AddTags(r.db, link_id, Tail(tags))

\* add_link without the lookup of the Link under the parent/Place pair: a
\* row is inserted on every call
add_link_inserting(d, parent_id, url, title, tags) ==
    LET norm_url == normalize_url(url)
        display_title == IF Strip(title) # <<>> THEN Strip(title) ELSE norm_url
    IN  IF ~_require_folder(d, parent_id) THEN Raise(d, "ValueError")
        ELSE IF norm_url = <<>> THEN Raise(d, "ValueError")
        ELSE LET pl == _ensure_place(d, norm_url, display_title)
                 li == _insert_bookmark(pl.db, TypeLink, pl.id, parent_id,
                                _resolve_position(pl.db, parent_id, NoPosition),
                                display_title)
             IN  AddTags(li.db, li.id, tags)

add_link(d, parent_id, url, title, tags) ==
    LET norm_url == normalize_url(url)
        display_title == IF Strip(title) # <<>> THEN Strip(title) ELSE norm_url
    IN  IF ~_require_folder(d, parent_id) THEN Raise(d, "ValueError")
        ELSE IF norm_url = <<>> THEN Raise(d, "ValueError")
        ELSE LET pl == _ensure_place(d, norm_url, display_title)
                 rows == LinksAt(pl.db, parent_id, pl.id)
                 li == IF rows # {}
                       THEN LET link_id == SetMin(rows)
                            IN  IF display_title # <<>>
                                   /\ pl.db.bookmarks[link_id].title # display_title
                                THEN Ok([pl.db EXCEPT !.bookmarks[link_id].title =
                                                          display_title], link_id)
                                ELSE Ok(pl.db, link_id)
                       ELSE _insert_bookmark(pl.db, TypeLink, pl.id, parent_id,
                                _resolve_position(pl.db, parent_id, NoPosition),
                                display_title)
             IN  AddTags(li.db, li.id, tags)

\* move_link as a delete and an insert: the link gets a new row id
move_link_reinserting(d, link_id, new_parent_id, position) ==
    IF ~_require_link(d, link_id) \/ ~_require_folder(d, new_parent_id)
    THEN Raise(d, "ValueError")
    ELSE Ok([places |-> d.places,
             bookmarks |-> [i \in (BookmarkIds(d) \ {link_id}) \cup {SetMax(BookmarkIds(d)) + 1} |->
                 IF i \in BookmarkIds(d) \ {link_id} THEN d.bookmarks[i]
                 ELSE [d.bookmarks[link_id] EXCEPT !.parent = new_parent_id,
                          !.position = _resolve_position(d, new_parent_id, position)]]], 0)

move_link(d, link_id, new_parent_id, position) ==
    IF ~_require_link(d, link_id) \/ ~_require_folder(d, new_parent_id)
    THEN Raise(d, "ValueError")
    ELSE Ok([d EXCEPT !.bookmarks[link_id].parent = new_parent_id,
                      !.bookmarks[link_id].position =
                          _resolve_position(d, new_parent_id, position)], 0)

-----------------------------------------------------------------------------
(* dedupe_bookmark_links_by_url.  Each step yields the database after it   *)
(* and the number it added to `removed`.                                   *)

\* the rows of a table restricted to the ids kept
Restrict(table, keep) == [i \in keep |-> table[i]]

\* step 1: the urls of "GROUP BY url HAVING COUNT(*) > 1" (url not blank)
DupUrls(d) ==
    {d.places[p].url : p \in {q \in PlaceIds(d) :
        /\ Strip(d.places[q].url) # <<>>
        /\ Cardinality(PlacesWithUrl(d, d.places[q].url)) > 1}}

\* keep = ids[0] of the place's url group
PlaceSurvivor_highest(d, p) == SetMax(PlacesWithUrl(d, d.places[p].url))

PlaceSurvivor(d, p) == SetMin(PlacesWithUrl(d, d.places[p].url))

\* the place rows step 1 deletes
DupPlaces(d) ==
    {p \in PlaceIds(d) : d.places[p].url \in DupUrls(d) /\ p # PlaceSurvivor(d, p)}

\* a merge that deletes the duplicate places and leaves their links alone
MergePlaces_delete_only(d) ==
    [db |-> [d EXCEPT !.places = Restrict(@, PlaceIds(d) \ DupPlaces(d))],
     removed |-> Cardinality(DupPlaces(d))]

\* step 1: UPDATE moz_bookmarks SET fk = keep WHERE fk = dup; DELETE the dup
MergePlaces(d) ==
    LET dups == DupPlaces(d)
    IN  [db |-> [places |-> Restrict(d.places, PlaceIds(d) \ dups),
                 bookmarks |-> [i \in BookmarkIds(d) |->
                     IF d.bookmarks[i].fk \in dups
                     THEN [d.bookmarks[i] EXCEPT !.fk = PlaceSurvivor(d, d.bookmarks[i].fk)]
                     ELSE d.bookmarks[i]]],
         removed |-> Cardinality(dups)]

\* step 2: the rows (b1, b2) of the self-join: two links of one parent with
\* the same fk (NULL equals NULL under COALESCE), b1.id > b2.id
SameParentPairs(d) ==
    {pr \in LinkIds(d) \X LinkIds(d) :
        /\ d.bookmarks[pr[1]].parent = d.bookmarks[pr[2]].parent
        /\ d.bookmarks[pr[1]].fk = d.bookmarks[pr[2]].fk
        /\ pr[1] > pr[2]}

\* step 2: one DELETE and one `removed += 1` per row of the join
DropSameParentDupes(d) ==
    LET pairs == SameParentPairs(d)
    IN  [db |-> [d EXCEPT !.bookmarks =
                     Restrict(@, BookmarkIds(d) \ {pr[1] : pr \in pairs})],
         removed |-> Cardinality(pairs)]

\* step 3: by_url[key]: the read_all entries whose normalized url is key
LinksByUrl(d, key) ==
    {i \in ReadAllIds(d) : normalize_url(JoinedUrl(d, i)) = key}

\* step 3 dropping only the last item of every by_url list
CrossParentDupes_last_only(d) ==
    {i \in ReadAllIds(d) :
        /\ normalize_url(JoinedUrl(d, i)) # <<>>
        /\ i # SetMin(LinksByUrl(d, normalize_url(JoinedUrl(d, i))))
        /\ i = SetMax(LinksByUrl(d, normalize_url(JoinedUrl(d, i))))}

\* step 3: items[1:] of every by_url list, sorted by id
CrossParentDupes(d) ==
    {i \in ReadAllIds(d) :
        /\ normalize_url(JoinedUrl(d, i)) # <<>>
        /\ i # SetMin(LinksByUrl(d, normalize_url(JoinedUrl(d, i))))}

DropCrossParentDupes(d) ==
    LET dups == CrossParentDupes(d)
    IN  [db |-> [d EXCEPT !.bookmarks = Restrict(@, BookmarkIds(d) \ dups)],
         removed |-> Cardinality(dups)]

dedupe_bookmark_links_by_url(d) ==
    LET s1 == MergePlaces(d)
        s2 == DropSameParentDupes(s1.db)
        s3 == DropCrossParentDupes(s2.db)
    IN  [db |-> s3.db, removed |-> s1.removed + s2.removed + s3.removed]

\* a recount that leaves the tag references out
recompute_foreign_count_genuine_only(d) ==
    [d EXCEPT !.places = [p \in PlaceIds(d) |->
        [d.places[p] EXCEPT !.foreign_count =
            Cardinality({i \in LinkIds(d) :
                /\ d.bookmarks[i].fk = p
                /\ d.bookmarks[d.bookmarks[i].parent].parent # root_ids.tags})]]]

\* recompute_foreign_count: COUNT(*) of the type-1 rows whose fk is the place
recompute_foreign_count(d) ==
    [d EXCEPT !.places = [p \in PlaceIds(d) |->
        [d.places[p] EXCEPT !.foreign_count =
            Cardinality({i \in LinkIds(d) : d.bookmarks[i].fk = p})]]]

\* PRAGMA foreign_key_check: the rows that break a FOREIGN KEY clause of the
\* schema.  moz_bookmarks and moz_places declare none (the columns fk and
\* parent are plain INTEGER), so no row of the bookmark store is reported.
foreign_key_check(d) == {i \in BookmarkIds(d) : FALSE}

\* validate_integrity: the error raised, "none" when both pragmas pass.
\* PRAGMA integrity_check reports damage to the file's pages, which no
\* operation of the handle can cause.
validate_integrity(d) ==
    IF foreign_key_check(d) # {} THEN "IntegrityViolation" ELSE "none"

-----------------------------------------------------------------------------
(* The orchestrator, apply_bookmarks_to_firefox (firefox_sync.py), on the  *)
(* bookmark store.  A desired bookmark is [url, title, tags, path]: url is *)
(* `b.final_url or b.url`, title `b.assigned_title or b.title`, path       *)
(* `b.assigned_path or b.folder_path`.                                     *)

SyncStats ==
    [added_links |-> 0, moved_links |-> 0, tagged_links |-> 0, touched_links |-> 0,
     deduped_bookmark_rows |-> 0]

\* _resolve_target_root_and_relpath: <<root id, relative path>>
_resolve_target_root_and_relpath(folder_path) ==
    LET comps == StripComps(folder_path)
        hits == IF comps = <<>> THEN {}
                ELSE {a \in _ROOT_ALIASES : a[1] = _root_alias_key(comps[1])}
    IN  IF hits # {}
        THEN <<root_ids[(CHOOSE a \in hits : TRUE)[2]], Tail(comps)>>
        ELSE <<root_ids.menu, comps>>

\* existing_by_url / existing_parent_by_url: the first read_all entry of
\* every non-empty normalized url
BuildIndex(d) ==
    LET keys == {normalize_url(JoinedUrl(d, i)) : i \in ReadAllIds(d)} \ {<<>>}
    IN  [k \in keys |->
            LET first == SetMin(LinksByUrl(d, k))
            IN  [id |-> first, parent |-> d.bookmarks[first].parent]]

RECURSIVE TagExisting(_, _, _, _)
\* for tag in tags: _, created = db.add_link_tag(link_id, tag, return_created=True)
\* yields the database, the error and the number of references created
TagExisting(d, link_id, tags, n) ==
    IF tags = <<>> THEN [db |-> d, err |-> "none", tagged |-> n]
    ELSE LET r == add_link_tag(d, link_id, Head(tags))
         IN  IF r.err # "none" THEN [db |-> r.db, err |-> r.err, tagged |-> n]
             ELSE TagExisting(r.db, link_id, Tail(tags), IF r.created THEN n + 1 ELSE n)

\* the state of a run after DEDUPE and INDEX: dd is the result of the dedupe
PhaseIndex(dd) ==
    [db |-> dd.db, index |-> BuildIndex(dd.db),
     stats |-> [SyncStats EXCEPT !.deduped_bookmark_rows = dd.removed],
     err |-> "none"]

\* a run that stops on an exception keeps what the connection wrote
Stopped(st, r) == [st EXCEPT !.db = r.db, !.err = r.err]

\* existing_link_id is None: r is the result of db.add_link(...)
ApplyAdded(st, url, target_parent_id, r) ==
    IF r.err # "none" THEN Stopped(st, r)
    ELSE [db |-> r.db,
          index |-> (url :> [id |-> r.id, parent |-> target_parent_id]) @@ st.index,
          stats |-> [st.stats EXCEPT !.added_links = @ + 1, !.touched_links = @ + 1],
          err |-> "none"]

\* the tags of an existing link: t is the result of the add_link_tag loop
ApplyTagged(st, url, target_parent_id, differs, t) ==
    IF t.err # "none" THEN Stopped(st, t)
    ELSE [db |-> t.db,
          index |-> [st.index EXCEPT ![url].parent = target_parent_id],
          stats |-> [st.stats EXCEPT !.moved_links = IF differs THEN @ + 1 ELSE @,
                                     !.tagged_links = @ + t.tagged,
                                     !.touched_links = @ + 1],
          err |-> "none"]

\* the title of an existing link, with every requested tag counted as tagged
ApplyRetitled_counting_requested(st, url, tags, target_parent_id, differs, a) ==
    IF a.err # "none" THEN Stopped(st, a)
    ELSE ApplyTagged(st, url, target_parent_id, differs,
                     [TagExisting(a.db, a.id, tags, 0) EXCEPT !.tagged = Len(tags)])

\* the title of an existing link: a is the result of db.add_link(..., tags=[])
ApplyRetitled(st, url, tags, target_parent_id, differs, a) ==
    IF a.err # "none" THEN Stopped(st, a)
    ELSE ApplyTagged(st, url, target_parent_id, differs, TagExisting(a.db, a.id, tags, 0))

\* an existing link, counted as moved whether or not its parent differs
ApplyMoved_always_counted(st, url, title, tags, target_parent_id, differs, m) ==
    IF m.err # "none" THEN Stopped(st, m)
    ELSE ApplyRetitled(st, url, tags, target_parent_id, TRUE,
                       add_link(m.db, target_parent_id, url, title, <<>>))

\* an existing link: m is the result of db.move_link(...), or the database
\* untouched when the link is already under the target folder
ApplyMoved(st, url, title, tags, target_parent_id, differs, m) ==
    IF m.err # "none" THEN Stopped(st, m)
    ELSE ApplyRetitled(st, url, tags, target_parent_id, differs,
                       add_link(m.db, target_parent_id, url, title, <<>>))

\* the body of the loop once the target folder is known: f is the result of
\* db.ensure_folder_path(root_id, rel_path)
ApplyInFolder(st, url, title, tags, f) ==
    IF f.err # "none" THEN Stopped(st, f)
    ELSE IF url \notin DOMAIN st.index
    THEN ApplyAdded(st, url, f.id, add_link(f.db, f.id, url, title, tags))
    ELSE ApplyMoved(st, url, title, tags, f.id, st.index[url].parent # f.id,
                    IF st.index[url].parent # f.id
                    THEN move_link(f.db, st.index[url].id, f.id, NoPosition)
                    ELSE Ok(f.db, 0))

\* db.ensure_folder_path(root_id, rel_path) on the resolved target
EnsureTarget(d, target) == ensure_folder_path(d, target[1], target[2])

\* title = (b.title or url).strip() or url
TitleOr(title, url) == IF Strip(title) # <<>> THEN Strip(title) ELSE url

\* one iteration of the APPLY_LINKS loop on state st = [db, index, stats, err]
ApplyOne(st, b) ==
    IF normalize_url(b.url) = <<>> THEN st
    ELSE ApplyInFolder(st, normalize_url(b.url), TitleOr(b.title, normalize_url(b.url)),
                       SelectSeq(b.tags, LAMBDA t : Strip(t) # <<>>),
                       EnsureTarget(st.db, _resolve_target_root_and_relpath(b.path)))

RECURSIVE ApplyLinks(_, _)
\* for idx, b in enumerate(rows, start=1): ...
ApplyLinks(st, rows) ==
    IF rows = <<>> \/ st.err # "none" THEN st
    ELSE ApplyLinks(ApplyOne(st, Head(rows)), Tail(rows))

\* FINALIZE: db.recompute_foreign_count() when no step raised
PhaseFinalize(st) ==
    IF st.err # "none" THEN [db |-> st.db, err |-> st.err, stats |-> st.stats]
    ELSE [db |-> recompute_foreign_count(st.db), err |-> "none", stats |-> st.stats]

\* apply_bookmarks_to_firefox(places_db_path, rows, dedupe=dedupe) without an
\* icon store: DEDUPE, INDEX, APPLY_LINKS, FINALIZE
apply_bookmarks_to_firefox(d, rows, dedupe) ==
    PhaseFinalize(ApplyLinks(PhaseIndex(IF dedupe THEN dedupe_bookmark_links_by_url(d)
                                        ELSE [db |-> d, removed |-> 0]), rows))

-----------------------------------------------------------------------------
(* Texts used as inputs and in the initial stores.                         *)

T_c == <<"c">>
T_C == <<"C">>
T_star_c == <<"*", " ", "c">>
T_plus_c == <<"+", "c">>
T_d == <<"d">>
T_c_d == <<"c", " ", "d">>
T_c__d == <<" ", "C", " ", " ", "d">>
T_v == <<"v">>
T_V == <<"V">>
T_star_v == <<"*", "v">>
T_A == <<"A">>
T_B == <<"B">>
T_menu == <<"m", "e", "n", "u">>
T_toolbar == <<"t", "o", "o", "l", "b", "a", "r">>
T_tags == <<"t", "a", "g", "s">>
T_Toolbar_deco == <<"*", "T", "o", "o", "l", "b", "a", "r">>
T_Bookmarks_Toolbar ==
    <<"B", "o", "o", "k", "m", "a", "r", "k", "s", " ", "T", "o", "o", "l", "b", "a", "r">>

U_a == <<"a">>
U_a_frag == <<"a", "#", "f">>
U_a_utm == <<"a", "?", "utm_source", "=", "x">>
U_b == <<"b">>
U_query == <<"place:", "q">>

Folder(parent, position, title) ==
    [type |-> TypeFolder, fk |-> 0, parent |-> parent, position |-> position,
     title |-> title]

Link(parent, position, fk, title) ==
    [type |-> TypeLink, fk |-> fk, parent |-> parent, position |-> position,
     title |-> title]

Place(url, title, hidden, foreign_count) ==
    [url |-> url, title |-> title, hidden |-> hidden, foreign_count |-> foreign_count]

\* the root rows of a profile: the tree root and the five well-known roots
RootRows ==
    (1 :> Folder(0, 0, <<"r", "o", "o", "t">>))
    @@ (2 :> Folder(1, 0, T_menu))
    @@ (3 :> Folder(1, 1, T_toolbar))
    @@ (4 :> Folder(1, 2, T_tags))
    @@ (5 :> Folder(1, 3, <<"u", "n", "f", "i", "l", "e", "d">>))
    @@ (6 :> Folder(1, 4, <<"m", "o", "b", "i", "l", "e">>))

NoPlaces == [p \in {} |-> Place(<<>>, <<>>, 0, 0)]

\* roots only
SeedEmpty == [places |-> NoPlaces, bookmarks |-> RootRows]

\* one bookmark of url a in menu/c, tagged v
SeedTagged ==
    [places |-> (1 :> Place(U_a, T_A, 0, 2)),
     bookmarks |-> RootRows
        @@ (7 :> Folder(2, 0, T_c))
        @@ (8 :> Link(7, 0, 1, T_A))
        @@ (9 :> Folder(4, 0, T_v))
        @@ (10 :> Link(9, 0, 1, T_A))]

\* a bookmark whose place is hidden, and a bookmark stored with a fragment
SeedForeign ==
    [places |-> (1 :> Place(U_b, T_B, 1, 1)) @@ (2 :> Place(U_a_frag, T_A, 0, 1)),
     bookmarks |-> RootRows
        @@ (7 :> Folder(3, 0, T_star_c))
        @@ (8 :> Link(7, 0, 1, T_B))
        @@ (9 :> Link(2, 1, 2, T_A))]

\* the same url bookmarked in two folders
SeedTwoHomes ==
    [places |-> (1 :> Place(U_a, T_A, 0, 2)),
     bookmarks |-> RootRows
        @@ (7 :> Folder(2, 0, T_c))
        @@ (8 :> Folder(3, 0, T_c))
        @@ (9 :> Link(7, 0, 1, T_A))
        @@ (10 :> Link(8, 0, 1, T_A))]

-----------------------------------------------------------------------------
(* FaviconsDB (favicons_db.py).  The icon store is a record: schema says   *)
(* which uniqueness constraints favicons.sqlite declares, pages maps a     *)
(* page id to its page_url, icons an icon id to [url, expire_ms], and maps *)
(* is the sequence of moz_icons_to_pages rows [page_id, icon_id,           *)
(* expire_ms].  An operation yields [fav, err, made, removed]: the rows    *)
(* left in the file, the exception raised ("none" when it returns), and    *)
(* the value returned.                                                     *)

\* the schema of _mk_favicons_db: page_url UNIQUE, icon_url UNIQUE and
\* PRIMARY KEY(page_id, icon_id)
KeyedSchema == [page_unique |-> TRUE, icon_unique |-> TRUE, map_key |-> TRUE]

\* the schema of _mk_favicons_db_with_duplicates: no uniqueness constraint
PlainSchema == [page_unique |-> FALSE, icon_unique |-> FALSE, map_key |-> FALSE]

\* the key that set_page_icon's ON CONFLICT(page_id, icon_id) names, on
\* tables whose urls may repeat, which is what dedupe's merges are for
MappingKeySchema == [page_unique |-> FALSE, icon_unique |-> FALSE, map_key |-> TRUE]

IconResult(f, e, made, removed) ==
    [fav |-> f, err |-> e, made |-> made, removed |-> removed]

\* the rows of moz_icons_to_pages of page page_id
MappingsOf(f, page_id) == {k \in DOMAIN f.maps : f.maps[k].page_id = page_id}

\* _get_or_create_page_id: <<icon store, page id>>
_get_or_create_page_id(f, page_url) ==
    LET hits == {p \in DOMAIN f.pages : f.pages[p] = page_url}
    IN  IF hits # {} THEN <<f, SetMin(hits)>>
        ELSE <<[f EXCEPT !.pages = @ @@ (NextRowId(f.pages) :> page_url)],
               NextRowId(f.pages)>>

\* _get_or_create_icon_id: <<icon store, icon id>>; an icon that exists has
\* its expiry refreshed
_get_or_create_icon_id(f, icon_url, expire_ms) ==
    LET hits == {i \in DOMAIN f.icons : f.icons[i].url = icon_url}
    IN  IF hits # {}
        THEN <<[f EXCEPT !.icons[SetMin(hits)].expire_ms = expire_ms], SetMin(hits)>>
        ELSE <<[f EXCEPT !.icons = @ @@ (NextRowId(f.icons) :>
                                           [url |-> icon_url, expire_ms |-> expire_ms])],
               NextRowId(f.icons)>>

\* the INSERT ... ON CONFLICT(page_id, icon_id) of set_page_icon on the icon
\* store gi[1] with icon gi[2]: it cannot be prepared on a table without
\* the key
InsertMapping(gi, page_id, expire_ms) ==
    IF \E k \in MappingsOf(gi[1], page_id) : gi[1].maps[k].icon_id = gi[2]
    THEN IconResult(gi[1], "none", FALSE, 0)
    ELSE IF ~gi[1].schema.map_key THEN IconResult(gi[1], "OperationalError", FALSE, 0)
    ELSE IconResult([gi[1] EXCEPT !.maps = Append(@, [page_id |-> page_id,
                                                       icon_id |-> gi[2],
                                                       expire_ms |-> expire_ms])],
                    "none", TRUE, 0)

\* set_page_icon once the page is resolved (gp = <<icon store, page id>>),
\* without the test for a mapping of the page to any icon
MapPage_pair_only(gp, i, expire_ms) ==
    InsertMapping(_get_or_create_icon_id(gp[1], i, expire_ms), gp[2], expire_ms)

\* set_page_icon once the page is resolved, with the icon looked up (and
\* its expiry refreshed) ahead of the test for a mapping of the page
MapPage_icon_first(gp, i, expire_ms) ==
    IF MappingsOf(gp[1], gp[2]) # {}
    THEN IconResult(_get_or_create_icon_id(gp[1], i, expire_ms)[1], "none", FALSE, 0)
    ELSE InsertMapping(_get_or_create_icon_id(gp[1], i, expire_ms), gp[2], expire_ms)

\* set_page_icon once the page is resolved: gp = <<icon store, page id>>
MapPage(gp, i, expire_ms) ==
    IF MappingsOf(gp[1], gp[2]) # {} THEN IconResult(gp[1], "none", FALSE, 0)
    ELSE InsertMapping(_get_or_create_icon_id(gp[1], i, expire_ms), gp[2], expire_ms)

\* set_page_icon(page_url=..., icon_url=..., expire_ms=...)
set_page_icon(f, page_url, icon_url, expire_ms) ==
    IF normalize_url(page_url) = <<>> \/ normalize_url(icon_url) = <<>>
    THEN IconResult(f, "none", FALSE, 0)
    ELSE MapPage(_get_or_create_page_id(f, normalize_url(page_url)),
                 normalize_url(icon_url), expire_ms)

\* two rows of moz_icons_to_pages with one (page_id, icon_id): what
\* PRIMARY KEY(page_id, icon_id) forbids
KeyClash(maps) ==
    \E j, k \in DOMAIN maps :
        j < k /\ maps[j].page_id = maps[k].page_id /\ maps[j].icon_id = maps[k].icon_id

\* step 1 of dedupe: ids[0] of the page rows that share the (non-blank) url
\* of page p
PageSurvivor(f, p) ==
    IF p \in DOMAIN f.pages /\ Strip(f.pages[p]) # <<>>
    THEN SetMin({q \in DOMAIN f.pages : f.pages[q] = f.pages[p]})
    ELSE p

\* step 2 of dedupe: ids[0] of the icon rows that share the (non-blank) url
\* of icon i
IconSurvivor(f, i) ==
    IF i \in DOMAIN f.icons /\ Strip(f.icons[i].url) # <<>>
    THEN SetMin({j \in DOMAIN f.icons : f.icons[j].url = f.icons[i].url})
    ELSE i

\* step 1: UPDATE moz_icons_to_pages SET page_id = keep WHERE page_id = dup
\* and DELETE of dup, for every duplicate page
MergePages(f) ==
    [f EXCEPT !.maps = [k \in DOMAIN f.maps |->
                           [f.maps[k] EXCEPT !.page_id = PageSurvivor(f, @)]],
              !.pages = Restrict(f.pages, {p \in DOMAIN f.pages : PageSurvivor(f, p) = p})]

\* step 2: UPDATE moz_icons_to_pages SET icon_id = keep WHERE icon_id = dup
\* and DELETE of dup, for every duplicate icon
MergeIcons(f) ==
    [f EXCEPT !.maps = [k \in DOMAIN f.maps |->
                           [f.maps[k] EXCEPT !.icon_id = IconSurvivor(f, @)]],
              !.icons = Restrict(f.icons, {i \in DOMAIN f.icons : IconSurvivor(f, i) = i})]

\* step 3: one row per page_id, MIN(icon_id) and MAX(COALESCE(expire_ms, 0)),
\* in the order of GROUP BY page_id
RebuildMappings(f) ==
    LET page_ids == {f.maps[k].page_id : k \in DOMAIN f.maps}
        order == SortedSeq(page_ids)
    IN  [f EXCEPT !.maps = [n \in 1..Len(order) |->
            [page_id |-> order[n],
             icon_id |-> SetMin({f.maps[k].icon_id : k \in MappingsOf(f, order[n])}),
             expire_ms |-> SetMax({f.maps[k].expire_ms : k \in MappingsOf(f, order[n])})]]]

\* dedupe once the pages are merged (m1) and the icons are merged (m2): an
\* UPDATE that would repeat a key raises IntegrityError and nothing of the
\* call is committed
DedupeIconStore(f, m1, m2) ==
    IF f.schema.map_key /\ (KeyClash(m1.maps) \/ KeyClash(m2.maps))
    THEN IconResult(f, "IntegrityError", FALSE, 0)
    ELSE IconResult(RebuildMappings(m2), "none", FALSE,
                    (Cardinality(DOMAIN f.pages) - Cardinality(DOMAIN m1.pages))
                    + (Cardinality(DOMAIN f.icons) - Cardinality(DOMAIN m2.icons))
                    + (Len(f.maps) - Len(RebuildMappings(m2).maps)))

\* FaviconsDB.dedupe
dedupe(f) == DedupeIconStore(f, MergePages(f), MergeIcons(MergePages(f)))

\* icon urls
I_i == <<"i">>
I_j == <<"j">>

\* an icon store without rows
NoIcons ==
    [schema |-> KeyedSchema, pages |-> [p \in {} |-> <<>>],
     icons |-> [i \in {} |-> [url |-> <<>>, expire_ms |-> 0]], maps |-> <<>>]

\* the uniqueness constraints of the schema hold of the rows
SchemaHolds(f) ==
    /\ f.schema.page_unique =>
           \A p, q \in DOMAIN f.pages : f.pages[p] = f.pages[q] => p = q
    /\ f.schema.icon_unique =>
           \A i, j \in DOMAIN f.icons : f.icons[i].url = f.icons[j].url => i = j
    /\ f.schema.map_key => ~KeyClash(f.maps)

\* page tables of the enumerated icon stores: url a once, twice, beside b
SeedPageTables ==
    {(1 :> U_a), (1 :> U_a) @@ (2 :> U_a), (1 :> U_a) @@ (2 :> U_b),
     (1 :> U_b) @@ (2 :> U_a) @@ (3 :> U_a)}

\* icon tables of the enumerated icon stores: url i once, twice, beside j
SeedIconTables ==
    {(10 :> [url |-> I_i, expire_ms |-> 1]),
     (10 :> [url |-> I_i, expire_ms |-> 1]) @@ (11 :> [url |-> I_i, expire_ms |-> 2]),
     (10 :> [url |-> I_i, expire_ms |-> 1]) @@ (11 :> [url |-> I_j, expire_ms |-> 2])}

\* expiry times, in place of int(time.time() * 1000) + 180 days; 0 is NULL
ExpiryPool == {0, 1, 2}

\* the expiry times of the rows of the enumerated icon stores
SeedExpiryPool == {0, 1}

\* the mapping rows m (each <<page id, icon id, expiry>>) as table rows
SeedMappings(m) ==
    [k \in DOMAIN m |-> [page_id |-> m[k][1], icon_id |-> m[k][2], expire_ms |-> m[k][3]]]

-----------------------------------------------------------------------------
(* A run of apply_bookmarks_to_firefox with both stores, one phase at a    *)
(* time.  Every method of PlacesDB commits before it returns, so between   *)
(* two steps of a run db is what the file holds; the stores committed      *)
(* inside one iteration of the APPLY_LINKS loop are computed by            *)
(* IterationCommits.  A desired bookmark carries icon, its                 *)
(* b.meta["icon_uri"].                                                     *)

RECURSIVE TagCommits(_, _, _)
\* the stores committed by add_link_tag for each of tags on link_id: after
\* the add_folder of add_tag and after the insert of the reference
TagCommits(d, link_id, tags) ==
    IF tags = <<>> THEN {}
    ELSE UNION {{add_tag(d, Head(tags)).db, r.db} \cup TagCommits(r.db, link_id, Tail(tags)) :
                   r \in {add_link_tag(d, link_id, Head(tags))}}

\* the stores committed by ensure_folder_path(root_id, rel_path): one
\* add_folder after the other
FolderCommits(d, target) ==
    {ensure_folder_path(d, target[1], SubSeq(target[2], 1, k)).db :
        k \in 0..Len(target[2])}

\* the stores committed for a url that is not in the index: l0 is the
\* insert of add_link, which is committed with the first write of the tag
\* loop, or by add_link's own commit after the loop
NewLinkCommits(l0, tags) ==
    (TagCommits(l0.db, l0.id, tags) \ {l0.db}) \cup {AddTags(l0.db, l0.id, tags).db}

\* the stores that can be on disk when the process dies inside
\* add_link(parent_id, url, title, tags) on store d: d itself, and what the
\* commits of add_folder and add_link_tag inside the tag loop and add_link's
\* own commit have written
add_link_commits(d, parent_id, url, title, tags) ==
    UNION {IF l0.err # "none" THEN {d}
           ELSE {d} \cup NewLinkCommits(l0, SelectSeq(tags, LAMBDA t : Strip(t) # <<>>)) :
              l0 \in {add_link(d, parent_id, url, title, <<>>)}}

\* the stores committed for a url that is in the index: m is the store after
\* move_link (or the one before it), a the result of add_link(..., tags=[])
OldLinkCommits(m, a, tags) == {m.db, a.db} \cup TagCommits(a.db, a.id, tags)

\* the stores committed by the loop body once the target folder f is there
LinkCommits(index, url, title, tags, f) ==
    UNION {UNION {IF url \notin DOMAIN index THEN NewLinkCommits(a, tags)
                  ELSE OldLinkCommits(m, a, tags) :
                     a \in {add_link(m.db, f.id, url, title, <<>>)}} :
              m \in {IF url \in DOMAIN index /\ index[url].parent # f.id
                     THEN move_link(f.db, index[url].id, f.id, NoPosition)
                     ELSE f}}

\* every store that is on disk at some moment of the loop iteration for b
IterationCommits(d, index, b) ==
    IF normalize_url(b.url) = <<>> THEN {d}
    ELSE FolderCommits(d, _resolve_target_root_and_relpath(b.path))
         \cup LinkCommits(index, normalize_url(b.url),
                          TitleOr(b.title, normalize_url(b.url)),
                          SelectSeq(b.tags, LAMBDA t : Strip(t) # <<>>),
                          EnsureTarget(d, _resolve_target_root_and_relpath(b.path)))

\* icon_rows: the desired bookmarks with a url and an icon reference
icon_rows(rows) ==
    SelectSeq(rows, LAMBDA b : normalize_url(b.url) # <<>> /\ Strip(b.icon) # <<>>)

\* the body of the APPLY_ICONS loop with the exception propagating
ApplyIconOne_uncaught(f, b, fault, r) ==
    IF fault # "none" THEN [fav |-> f, links |-> 0, errors |-> 0, err |-> fault]
    ELSE [fav |-> r.fav, links |-> IF r.made THEN 1 ELSE 0, errors |-> 0, err |-> r.err]

\* the body of the APPLY_ICONS loop for b: fault is the exception that
\* get_place_url_hash or set_page_icon meets in the environment ("none",
\* "locked" or "io"), r the result of set_page_icon otherwise.  `except
\* Exception` counts either as one icon error.
ApplyIconOne(f, b, fault, r) ==
    IF fault # "none" THEN [fav |-> f, links |-> 0, errors |-> 1, err |-> "none"]
    ELSE IF r.err # "none" THEN [fav |-> r.fav, links |-> 0, errors |-> 1, err |-> "none"]
    ELSE [fav |-> r.fav, links |-> IF r.made THEN 1 ELSE 0, errors |-> 0, err |-> "none"]

\* a handler that passes every sqlite3.OperationalError on unchanged
OnOperationalError_unchanged(fault) == "OperationalError"

\* except sqlite3.OperationalError: "locked" or "busy" in the message makes
\* it the RuntimeError that names the lock (StoreLocked), any other message
\* is raised again unchanged
OnOperationalError(fault) ==
    IF fault = "locked" THEN "StoreLocked" ELSE "OperationalError"

\* the tables that supports_schema() requires
RequiredTables == {"moz_pages_w_icons", "moz_icons", "moz_icons_to_pages"}

\* the favicons_db_path argument: not given, or a path with the file it
\* names (exists, and the tables of its sqlite_master)
NoIconPath == [given |-> FALSE, exists |-> FALSE, tables |-> {}]

\* FaviconsDB.supports_schema on a file with these tables, ignoring them
supports_schema_any(tables) == TRUE

\* FaviconsDB.supports_schema on a file with these tables
supports_schema(tables) == RequiredTables \subseteq tables

\* favicon_db is not None: the path is given, the file exists and
\* candidate.supports_schema() holds
HasFaviconDB(file) ==
    file.given /\ file.exists /\ supports_schema(file.tables)

\* no run of the orchestrator
NoRun ==
    [pc |-> "idle", rows |-> <<>>, dedupe |-> FALSE, apply_icons |-> FALSE,
     usable |-> FALSE, iconfile |-> NoIconPath, i |-> 1, index |-> <<>>, stats |-> SyncStats, icon_links |-> 0,
     icon_errors |-> 0, deduped_favicon_rows |-> 0, err |-> "none", fault |-> "none",
     trace |-> <<>>, origin |-> [places |-> <<>>, bookmarks |-> <<>>]]

\* the phase that follows phase pc in the body of the run, with icons before
\* links
NextPhase_icons_first(r, pc) ==
    CASE pc = "open" -> IF r.dedupe THEN "dedupe" ELSE "index"
      [] pc = "dedupe" -> "index"
      [] pc = "index" -> IF r.apply_icons /\ r.usable THEN "icons" ELSE "links"
      [] pc = "icons" -> "links"
      [] pc = "links" -> "finalize"
      [] pc = "finalize" -> "done"

\* the phase that follows phase pc in the body of the run: `if dedupe:`,
\* the index, the two loops (`if apply_icons and favicon_db is not None:`),
\* the final checks
NextPhase(r, pc) ==
    CASE pc = "open" -> IF r.dedupe THEN "dedupe" ELSE "index"
      [] pc = "dedupe" -> "index"
      [] pc = "index" -> "links"
      [] pc = "links" -> IF r.apply_icons /\ r.usable THEN "icons" ELSE "finalize"
      [] pc = "icons" -> "finalize"
      [] pc = "finalize" -> "done"

\* where the run goes from phase pc: a loop over no rows has no step
Leave(r, pc) ==
    IF NextPhase(r, pc) = "links" /\ r.rows = <<>>
    THEN IF NextPhase(r, "links") = "icons" /\ icon_rows(r.rows) = <<>>
         THEN NextPhase(r, "icons") ELSE NextPhase(r, "links")
    ELSE IF NextPhase(r, pc) = "icons" /\ icon_rows(r.rows) = <<>>
    THEN IF NextPhase(r, "icons") = "links" /\ r.rows = <<>>
         THEN NextPhase(r, "links") ELSE NextPhase(r, "icons")
    ELSE NextPhase(r, pc)

\* FINALIZE: db.recompute_foreign_count(), db.validate_integrity() and, with
\* an icon store, favicon_db.validate_integrity()
FinalizeEvents(usable) ==
    <<"recompute", "validate_places">>
    \o (IF usable THEN <<"validate_icons">> ELSE <<>>)

-----------------------------------------------------------------------------
(* PlacesDB.open and the discovery of the root folders.  A places file is  *)
(* described by what open() reads of it: whether moz_bookmarks_roots       *)
(* exists and its rows (root name -> folder id), whether moz_bookmarks has *)
(* a guid column and which rows carry a well-known root guid (root name of *)
(* the guid -> row id).  The handle is [state, file, root_ids, err, out].  *)

RootNames == DOMAIN root_ids

\* a dict without keys
NoRoots == [n \in {} |-> 0]

NoFile == [has_roots_table |-> FALSE, roots |-> NoRoots, has_guid |-> FALSE, guids |-> NoRoots]

NoHandle == [state |-> "closed", file |-> NoFile, root_ids |-> NoRoots, err |-> "none", out |-> 0]

\* _discover_root_ids: the rows of the roots table when it exists; the rows
\* with a well-known guid `if not out and self._has_guid`
_discover_root_ids(file) ==
    IF file.has_roots_table /\ DOMAIN file.roots # {} THEN file.roots
    ELSE IF file.has_guid THEN file.guids
    ELSE NoRoots

\* open(): self.root_ids = self._discover_root_ids(); nothing is raised
open(file) ==
    [state |-> "open", file |-> file, root_ids |-> _discover_root_ids(file),
     err |-> "none", out |-> 0]

\* get_root_folder_id: self.root_ids.get(name), 0 for None
get_root_folder_id(h, name) == IF name \in DOMAIN h.root_ids THEN h.root_ids[name] ELSE 0

\* the roots _resolve_target_root_and_relpath falls back to, in its order
FallbackRoots == <<"menu", "toolbar", "unfiled">>

\* the first root of the fallback order that the handle knows, 0 when none
FirstKnownRoot(h) ==
    IF {k \in 1..Len(FallbackRoots) : get_root_folder_id(h, FallbackRoots[k]) # 0} = {} THEN 0
    ELSE get_root_folder_id(h, FallbackRoots[
             SetMin({k \in 1..Len(FallbackRoots) : get_root_folder_id(h, FallbackRoots[k]) # 0})])

\* the root name that the first component of a path is an alias of, "" when
\* it is none
AliasOf(comps) ==
    IF comps = <<>> \/ {a \in _ROOT_ALIASES : a[1] = _root_alias_key(comps[1])} = {} THEN ""
    ELSE (CHOOSE a \in _ROOT_ALIASES : a[1] = _root_alias_key(comps[1]))[2]

\* _resolve_target_root_and_relpath on a handle: the aliased root when the
\* handle knows it, else menu, toolbar, unfiled in this order, else
\* ValueError("no known Firefox bookmark roots found (menu/toolbar/unfiled)")
ResolveTargetOn(h, folder_path) ==
    IF AliasOf(StripComps(folder_path)) # ""
       /\ get_root_folder_id(h, AliasOf(StripComps(folder_path))) # 0
    THEN [h EXCEPT !.err = "none",
                   !.out = get_root_folder_id(h, AliasOf(StripComps(folder_path)))]
    ELSE IF FirstKnownRoot(h) # 0
    THEN [h EXCEPT !.err = "none", !.out = FirstKnownRoot(h)]
    ELSE [h EXCEPT !.err = "ValueError", !.out = 0]

\* the guard of add_tag: ValueError("tags root folder not found") when the
\* handle knows no tags root
TagsRootOn(h) ==
    IF get_root_folder_id(h, "tags") = 0 THEN [h EXCEPT !.err = "ValueError", !.out = 0]
    ELSE [h EXCEPT !.err = "none", !.out = get_root_folder_id(h, "tags")]

SeedStores == {SeedEmpty, SeedTagged, SeedForeign, SeedTwoHomes}

\* place tables with duplicate urls: two rows of url a (one of them possibly
\* hidden), a row stored with a fragment beside its normalized form
SeedPlaceTables ==
    {(1 :> Place(U_a, T_A, 0, 0)),
     (1 :> Place(U_a, T_A, 0, 0)) @@ (2 :> Place(U_a, <<>>, 0, 0)),
     (1 :> Place(U_a, T_A, 1, 0)) @@ (2 :> Place(U_a, T_A, 0, 0)),
     (1 :> Place(U_a, T_A, 0, 0)) @@ (2 :> Place(U_a, T_A, 1, 0)),
     (1 :> Place(U_a_frag, T_A, 0, 0)) @@ (2 :> Place(U_a, T_A, 0, 0)),
     (1 :> Place(U_a, T_A, 0, 0)) @@ (2 :> Place(U_b, T_B, 0, 0))
         @@ (3 :> Place(U_a, T_A, 0, 0))}

\* the folders of an enumerated store: menu/c (7) and the tag folder v (8)
SeedFolderRows ==
    RootRows @@ (7 :> Folder(2, 0, T_c)) @@ (8 :> Folder(4, 0, T_v))

\* the parents of the links of an enumerated store
SeedLinkParents == {2, 7, 8}

\* n link rows (ids 9..8+n): row i under the parent and pointing at the place
\* that f gives it
SeedLinkRows(n, f) == [i \in 9..(8 + n) |-> Link(f[i][1], i - 8, f[i][2], T_A)]

FolderTitlePool == {T_c, T_C, T_star_c, T_plus_c, T_c_d, T_c__d}

TagPool == {T_v, T_V, T_star_v}

PathPool ==
    {<<>>, <<T_star_c>>, <<T_c, T_c_d>>, <<T_C, T_c__d>>, <<T_Toolbar_deco, T_plus_c>>,
     <<T_tags, T_v>>, <<T_toolbar>>, <<T_Bookmarks_Toolbar, T_plus_c>>}

\* the (url, title, tags) arguments of the add_link calls
LinkInputs ==
    {<<U_a, T_A, <<>> >>, <<U_a_frag, T_B, <<T_v>> >>, <<U_b, <<>>, <<T_V, T_star_v>> >>}

\* desired bookmarks
B_a_c == [url |-> U_a, title |-> T_A, tags |-> <<T_v>>, path |-> <<T_c>>]
B_a_toolbar == [url |-> U_a, title |-> T_B, tags |-> <<>>, path |-> <<T_toolbar, T_star_c>>]
B_b_d == [url |-> U_b, title |-> T_B, tags |-> <<T_V>>, path |-> <<T_c, T_c_d>>]
B_b_c == [url |-> U_b, title |-> T_A, tags |-> <<>>, path |-> <<T_c>>]
B_autm_d == [url |-> U_a_utm, title |-> <<>>, tags |-> <<T_star_v>>, path |-> <<T_d>>]
B_b_toolbar_menu == [url |-> U_b, title |-> T_B, tags |-> <<>>, path |-> <<T_toolbar, T_menu, T_c>>]
B_nourl == [url |-> <<>>, title |-> T_A, tags |-> <<T_v>>, path |-> <<T_d>>]

\* the desired sets the orchestrator is run on
DesiredSeqs ==
    {<<>>, <<B_a_c>>, <<B_a_toolbar>>, <<B_b_d>>, <<B_a_c, B_a_toolbar>>,
     <<B_b_d, B_a_toolbar>>, <<B_autm_d>>, <<B_b_toolbar_menu>>}

-----------------------------------------------------------------------------
(* The state machine.  db is the store, pre the store before the last      *)
(* call, last the last call with its results, prev the call before it.     *)

NoCall ==
    [op |-> "none", p |-> 0, x |-> 0, text |-> <<>>, tags |-> <<>>, rows |-> <<>>,
     dedupe |-> FALSE, err |-> "none", id |-> 0, created |-> FALSE, removed |-> 0,
     stats |-> SyncStats]

\* the folders below the roots
NonRootFolders(d) == FolderIds(d) \ (RootIdSet \cup {1})

Step(d2, call) ==
    /\ steps < MaxSteps
    /\ steps' = steps + 1
    /\ pre' = db
    /\ db' = d2
    /\ prev' = last
    /\ last' = call
    /\ UNCHANGED <<fav, prefav, run, readonly, handle, walk>>

\* no icon store in use, no run in progress, a read-write handle
BookmarkStoreOnly ==
    /\ fav = NoIcons
    /\ prefav = NoIcons
    /\ run = NoRun
    /\ readonly = FALSE
    /\ handle = NoHandle
    /\ walk = NoWalk

Init ==
    /\ db \in SeedStores
    /\ pre = db
    /\ last = NoCall
    /\ prev = NoCall
    /\ steps = 0
    /\ BookmarkStoreOnly

AddFolder ==
    \E p \in {1, root_ids.menu, root_ids.toolbar}, t \in FolderTitlePool \cup {T_Toolbar_deco} :
        \E r \in {_assert_writable(readonly, db, add_folder(db, p, t))} :
            Step(r.db, [NoCall EXCEPT !.op = "add_folder", !.p = p, !.text = t,
                                      !.err = r.err, !.id = r.id])

EnsureFolderPath ==
    \E p \in {1, root_ids.menu}, path \in PathPool :
        \E r \in {ensure_folder_path_on(readonly, db, p, path)} :
            Step(r.db, [NoCall EXCEPT !.op = "ensure_folder_path", !.p = p,
                                      !.rows = path, !.err = r.err, !.id = r.id])

AddTag ==
    \E t \in TagPool :
        \E r \in {_assert_writable(readonly, db, add_tag(db, t))} :
            Step(r.db, [NoCall EXCEPT !.op = "add_tag", !.text = t,
                                      !.err = r.err, !.id = r.id])

MoveFolder ==
    \E f \in NonRootFolders(db) \cup {root_ids.menu},
       np \in {1, root_ids.menu} \cup NonRootFolders(db) :
        \E r \in {_assert_writable(readonly, db, move_folder(db, f, np, NoPosition))} :
            Step(r.db, [NoCall EXCEPT !.op = "move_folder", !.p = np, !.x = f,
                                      !.err = r.err])

AddLink ==
    \E p \in {root_ids.menu} \cup NonRootFolders(db), a \in LinkInputs :
        \E r \in {_assert_writable(readonly, db, add_link(db, p, a[1], a[2], a[3]))} :
            Step(r.db, [NoCall EXCEPT !.op = "add_link", !.p = p, !.text = a[2],
                                      !.rows = a[1], !.tags = a[3], !.err = r.err,
                                      !.id = r.id])

AddLinkTag ==
    \E l \in LinkIds(db), t \in TagPool :
        \E r \in {_assert_writable(readonly, db, add_link_tag(db, l, t))} :
            Step(r.db, [NoCall EXCEPT !.op = "add_link_tag", !.x = l, !.text = t,
                                      !.err = r.err, !.id = r.id,
                                      !.created = r.created])

MoveLink ==
    \E l \in LinkIds(db), np \in {root_ids.menu} \cup NonRootFolders(db) :
        \E r \in {_assert_writable(readonly, db, move_link(db, l, np, NoPosition))} :
            Step(r.db, [NoCall EXCEPT !.op = "move_link", !.p = np, !.x = l,
                                      !.err = r.err])

Dedupe ==
    \E r \in {_assert_writable(readonly, db, dedupe_bookmark_links_by_url(db) @@ Ok(db, 0))} :
        Step(r.db, [NoCall EXCEPT !.op = "dedupe", !.err = r.err,
                                  !.removed = IF r.err = "none" THEN r.removed ELSE 0])

RecomputeForeignCount ==
    \E r \in {_assert_writable(readonly, db, Ok(recompute_foreign_count(db), 0))} :
        Step(r.db, [NoCall EXCEPT !.op = "recompute_foreign_count", !.err = r.err])

Apply ==
    \E rows \in DesiredSeqs, dd \in BOOLEAN :
        \E r \in {apply_bookmarks_to_firefox(db, rows, dd)} :
            Step(r.db, [NoCall EXCEPT !.op = "apply", !.rows = rows, !.dedupe = dd,
                                      !.err = r.err, !.stats = r.stats,
                                      !.removed = r.stats.deduped_bookmark_rows])

\* the orchestrator on the empty desired set with dedupe enabled
ApplyNothing ==
    \E r \in {apply_bookmarks_to_firefox(db, <<>>, TRUE)} :
        Step(r.db, [NoCall EXCEPT !.op = "apply", !.rows = <<>>, !.dedupe = TRUE,
                                  !.err = r.err, !.stats = r.stats,
                                  !.removed = r.stats.deduped_bookmark_rows])

\* links, tags, dedupe and orchestrator runs on a well-formed store
Next ==
    \/ AddLink
    \/ AddLinkTag
    \/ MoveLink
    \/ Dedupe
    \/ RecomputeForeignCount
    \/ Apply

Spec == Init /\ [][Next]_vars

\* the folder operations on a well-formed store
FolderNext ==
    \/ AddFolder
    \/ EnsureFolderPath
    \/ AddTag
    \/ MoveFolder

FolderInit ==
    /\ db \in {SeedEmpty, SeedTwoHomes}
    /\ pre = db
    /\ last = NoCall
    /\ prev = NoCall
    /\ steps = 0
    /\ BookmarkStoreOnly

FolderSpec == FolderInit /\ [][FolderNext]_vars

\* the initial stores of DedupeSpec: one of the place tables, the folders,
\* and up to MaxSeedLinks links, each under any of the parents and pointing
\* at any of the places
DirtyInit ==
    /\ \E places \in SeedPlaceTables, n \in 0..MaxSeedLinks :
           \E f \in [9..(8 + n) -> SeedLinkParents \X DOMAIN places] :
               db = [places |-> places, bookmarks |-> SeedFolderRows @@ SeedLinkRows(n, f)]
    /\ pre = db
    /\ last = NoCall
    /\ prev = NoCall
    /\ steps = 0
    /\ BookmarkStoreOnly

\* dedupe, alone and as the first phase of a run, on stores with duplicates
DedupeNext ==
    \/ Dedupe
    \/ ApplyNothing

DedupeSpec == DirtyInit /\ [][DedupeNext]_vars

-----------------------------------------------------------------------------
(* The icon store on its own: fav is the store, prefav the store before    *)
(* the last call.                                                          *)

IconStep(f2, call) ==
    /\ steps < MaxSteps
    /\ steps' = steps + 1
    /\ prefav' = fav
    /\ fav' = f2
    /\ prev' = last
    /\ last' = call
    /\ UNCHANGED <<db, pre, run, readonly, handle, walk>>

\* the enumerated icon stores: a schema, a page table, an icon table and up
\* to MaxSeedMaps mapping rows, such that the schema's constraints hold
DirtyIconInit ==
    /\ \E schema \in {KeyedSchema, PlainSchema, MappingKeySchema},
          pages \in SeedPageTables, icons \in SeedIconTables, n \in 0..MaxSeedMaps :
           \E m \in [1..n -> (DOMAIN pages) \X (DOMAIN icons) \X SeedExpiryPool] :
               /\ fav = [schema |-> schema, pages |-> pages, icons |-> icons,
                         maps |-> SeedMappings(m)]
               /\ SchemaHolds(fav)
    /\ prefav = fav
    /\ db = SeedEmpty
    /\ pre = db
    /\ last = NoCall
    /\ prev = NoCall
    /\ steps = 0
    /\ run = NoRun
    /\ readonly = FALSE
    /\ handle = NoHandle
    /\ walk = NoWalk

\* the enumerated icon stores with at most one mapping row
IconInit ==
    /\ DirtyIconInit
    /\ Len(fav.maps) <= 1

SetPageIcon ==
    \E page_url \in {U_a_frag, U_b, <<>>}, icon_url \in {I_i, I_j},
       expire_ms \in ExpiryPool \ SeedExpiryPool :
        \E r \in {set_page_icon(fav, page_url, icon_url, expire_ms)} :
            IconStep(r.fav, [NoCall EXCEPT !.op = "set_page_icon", !.text = page_url,
                                          !.tags = icon_url, !.x = expire_ms,
                                          !.err = r.err, !.created = r.made])

DedupeIcons ==
    \E r \in {dedupe(fav)} :
        IconStep(r.fav, [NoCall EXCEPT !.op = "dedupe_icons", !.err = r.err,
                                      !.removed = r.removed])

\* icon associations on a store without duplicate mappings
IconSpec == IconInit /\ [][SetPageIcon]_vars

\* FaviconsDB.dedupe on stores with duplicates
IconDedupeSpec == DirtyIconInit /\ [][DedupeIcons]_vars

-----------------------------------------------------------------------------
(* The mutating methods on a handle opened read-only.                      *)

ReadOnlyInit ==
    /\ db \in SeedStores
    /\ pre = db
    /\ last = NoCall
    /\ prev = NoCall
    /\ steps = 0
    /\ fav = NoIcons
    /\ prefav = NoIcons
    /\ run = NoRun
    /\ readonly = TRUE
    /\ handle = NoHandle
    /\ walk = NoWalk

HandleNext ==
    \/ AddFolder
    \/ EnsureFolderPath
    \/ MoveFolder
    \/ AddLink
    \/ MoveLink
    \/ AddTag
    \/ AddLinkTag
    \/ Dedupe
    \/ RecomputeForeignCount

HandleSpec == ReadOnlyInit /\ [][HandleNext]_vars


\* a desired bookmark with its icon reference
WithIcon(b, icon) == b @@ [icon |-> icon]

\* the desired sets of the stepped runs
RunDesired ==
    {<<WithIcon(B_a_c, I_i)>>,
     <<WithIcon(B_a_c, I_i), WithIcon(B_b_d, I_j)>>,
     <<WithIcon(B_a_c, <<>>), WithIcon(B_a_toolbar, I_j)>>,
     <<WithIcon(B_autm_d, I_j), WithIcon(B_b_d, I_i)>>,
     <<WithIcon(B_b_d, I_i), WithIcon(B_b_c, <<>>)>>,
     <<WithIcon(B_nourl, I_j), WithIcon(B_a_toolbar, <<>>)>>}

\* a store with two places of url a, each bookmarked under menu/c
SeedDuplicates ==
    [places |-> (1 :> Place(U_a, T_A, 0, 1)) @@ (2 :> Place(U_a, T_A, 0, 1)),
     bookmarks |-> SeedFolderRows @@ (9 :> Link(7, 0, 1, T_A)) @@ (10 :> Link(7, 1, 2, T_B))]

\* the icon stores of the stepped runs: empty with the keyed schema, empty
\* with the plain schema, page a mapped to icon i, and two page rows of url a
\* mapped to icon i under a schema that keys the mappings only
RunIconStores ==
    {NoIcons, [NoIcons EXCEPT !.schema = PlainSchema],
     [NoIcons EXCEPT !.pages = (1 :> U_a),
                     !.icons = (10 :> [url |-> I_i, expire_ms |-> 1]),
                     !.maps = <<[page_id |-> 1, icon_id |-> 10, expire_ms |-> 1]>>],
     [NoIcons EXCEPT !.schema = MappingKeySchema,
                     !.pages = (1 :> U_a) @@ (2 :> U_a),
                     !.icons = (10 :> [url |-> I_i, expire_ms |-> 1]),
                     !.maps = <<[page_id |-> 1, icon_id |-> 10, expire_ms |-> 1],
                                [page_id |-> 2, icon_id |-> 10, expire_ms |-> 1]>>]}

\* the initial stores of the stepped runs
RunStores == SeedStores \cup {SeedDuplicates}

\* the expiry that set_page_icon computes when the caller gives none
DefaultExpiry == SetMax(ExpiryPool)

\* one step of a run: the two stores and the position of the run change
RunStep(d2, f2, r2) ==
    /\ db' = d2
    /\ fav' = f2
    /\ run' = r2
    /\ UNCHANGED <<pre, last, prev, steps, prefav, readonly, handle, walk>>

RunInit ==
    /\ db \in RunStores
    /\ fav \in RunIconStores
    /\ pre = db
    /\ prefav = fav
    /\ last = NoCall
    /\ prev = NoCall
    /\ steps = 0
    /\ run = NoRun
    /\ readonly = FALSE
    /\ handle = NoHandle
    /\ walk = NoWalk

\* the favicons_db_path arguments of the runs: none, a path to no file, the
\* icon store, and files that lack one of the required tables
IconFilePool ==
    {NoIconPath, [NoIconPath EXCEPT !.given = TRUE]}
    \cup {[given |-> TRUE, exists |-> TRUE, tables |-> RequiredTables \ lacks] :
            lacks \in {{}, {"moz_pages_w_icons"}, {"moz_icons"}, {"moz_icons_to_pages"}}}

\* apply_bookmarks_to_firefox is called: rows = list(bookmarks); usable says
\* that favicon_db is not None
RunStart ==
    /\ run.pc = "idle"
    /\ \E rows \in RunDesired, dd \in BOOLEAN, ai \in BOOLEAN, file \in IconFilePool :
          RunStep(db, fav, [NoRun EXCEPT !.pc = "open", !.rows = rows, !.dedupe = dd,
                                         !.apply_icons = ai, !.iconfile = file,
                                         !.usable = HasFaviconDB(file),
                                         !.origin = db])

\* OPEN: the two handles are entered on the ExitStack
RunOpen ==
    /\ run.pc = "open"
    /\ RunStep(db, fav, [run EXCEPT !.pc = Leave(run, "open"),
                                    !.trace = Append(@, "open")])

\* DEDUPE: db.dedupe_bookmark_links_by_url(), then favicon_db.dedupe()
RunDedupe ==
    /\ run.pc = "dedupe"
    /\ \E d2 \in {dedupe_bookmark_links_by_url(db)},
          f2 \in {IF run.usable THEN dedupe(fav) ELSE IconResult(fav, "none", FALSE, 0)} :
          RunStep(d2.db, f2.fav,
                  IF f2.err # "none"
                  THEN [run EXCEPT !.pc = "raised", !.err = f2.err,
                                   !.stats.deduped_bookmark_rows = d2.removed]
                  ELSE [run EXCEPT !.pc = Leave(run, "dedupe"),
                                   !.stats.deduped_bookmark_rows = d2.removed,
                                   !.deduped_favicon_rows = f2.removed,
                                   !.trace = Append(@, "dedupe")])

\* INDEX: existing = db.read_all(include_tag_links=False) and the two maps
RunIndex ==
    /\ run.pc = "index"
    /\ RunStep(db, fav, [run EXCEPT !.pc = Leave(run, "index"), !.index = BuildIndex(db),
                                    !.i = 1, !.trace = Append(@, "index")])

\* the position of a loop after the iteration on row i of n
Advance(r, n, pc) ==
    IF r.i < n THEN [r EXCEPT !.i = @ + 1] ELSE [r EXCEPT !.i = 1, !.pc = Leave(r, pc)]

\* APPLY_LINKS: one iteration of `for idx, b in enumerate(rows, start=1)`
RunLink ==
    /\ run.pc = "links"
    /\ \E st \in {ApplyOne([db |-> db, index |-> run.index, stats |-> run.stats,
                            err |-> "none"], run.rows[run.i])} :
          RunStep(st.db, fav,
                  IF st.err # "none"
                  THEN [run EXCEPT !.pc = "raised", !.err = st.err]
                  ELSE Advance([run EXCEPT !.index = st.index, !.stats = st.stats,
                                           !.trace = Append(@, "link")],
                               Len(run.rows), "links"))

\* what the icon loop logs for a row: fault is the exception of the
\* environment, r the result of set_page_icon
IconEvent(fault, r) ==
    IF fault # "none" \/ r.err # "none" THEN "icon_error"
    ELSE IF r.made THEN "icon_set" ELSE "icon_kept"

\* APPLY_ICONS: one iteration of `for idx, b in enumerate(icon_rows, start=1)`
RunIcon ==
    /\ run.pc = "icons"
    /\ \E fault \in {"none", "locked", "io"} :
          \E b \in {icon_rows(run.rows)[run.i]} :
             \E s \in {set_page_icon(fav, normalize_url(b.url), Strip(b.icon),
                                     DefaultExpiry)} :
                \E r \in {ApplyIconOne(fav, b, fault, s)} :
                   RunStep(db, r.fav,
                           IF r.err # "none"
                           THEN [run EXCEPT !.pc = "raised", !.err = r.err,
                                            !.fault = fault]
                           ELSE Advance([run EXCEPT !.icon_links = @ + r.links,
                                                    !.icon_errors = @ + r.errors,
                                                    !.fault = fault,
                                                    !.trace = Append(@, IconEvent(fault, s))],
                                        Len(icon_rows(run.rows)), "icons"))

\* FINALIZE: recompute_foreign_count, validate_integrity on the bookmark
\* store, validate_integrity on the icon store
RunFinalize ==
    /\ run.pc = "finalize"
    /\ \E d2 \in {recompute_foreign_count(db)} :
          RunStep(d2, fav,
                  IF validate_integrity(d2) # "none"
                  THEN [run EXCEPT !.pc = "raised", !.err = validate_integrity(d2),
                                   !.trace = @ \o <<"recompute", "validate_places">>]
                  ELSE [run EXCEPT !.pc = Leave(run, "finalize"),
                                   !.trace = @ \o FinalizeEvents(run.usable)])

\* the bookmark stores that can be on disk when phase r.pc is cut short:
\* what was committed before the phase, and what the phase commits on its way
CommittedStores(r, d) ==
    CASE r.pc = "dedupe" -> IF r.usable THEN {d, dedupe_bookmark_links_by_url(d).db} ELSE {d}
      [] r.pc = "links" -> {d} \cup IterationCommits(d, r.index, r.rows[r.i])
      [] r.pc = "finalize" -> {d, recompute_foreign_count(d)}
      [] OTHER -> {d}

\* how the run ends when it is cut short: a sqlite3.OperationalError goes
\* through the handler of the run, a kill of the process through nothing
CutShort(r, kind) ==
    IF kind = "crash" THEN [r EXCEPT !.pc = "crashed"]
    ELSE [r EXCEPT !.pc = "raised", !.fault = kind, !.err = OnOperationalError(kind)]

\* a phase is cut short.  Either a store operation of the places handle
\* raises sqlite3.OperationalError ("database is locked", or another failure
\* of the file): the ExitStack closes the handles and the handler of the run
\* decides what is raised.  Or the process is killed.  Uncommitted work is
\* rolled back.  The icon loop catches the errors of its body itself.
RunCut ==
    /\ run.pc \in {"open", "dedupe", "index", "links", "icons", "finalize"}
    /\ \E kind \in {"locked", "io", "crash"}, d2 \in CommittedStores(run, db) :
          /\ run.pc = "icons" => kind = "crash"
          /\ RunStep(d2, fav, CutShort(run, kind))

\* the result of a whole run with the inputs of r on the bookmark store d,
\* without faults of the environment; e is the error of favicon_db.dedupe()
\* on the icon store: the run ends in DEDUPE when it raises, after the dedupe
\* of the bookmark store is committed
RunToEndWith(d, r, e) ==
    IF r.dedupe /\ r.usable /\ e # "none"
    THEN [db |-> dedupe_bookmark_links_by_url(d).db, err |-> e, stats |-> SyncStats]
    ELSE apply_bookmarks_to_firefox(d, r.rows, r.dedupe)

\* a whole run with the inputs of r on the stores d and f
RunToEnd(d, f, r) == RunToEndWith(d, r, dedupe(f).err)

\* apply_bookmarks_to_firefox is invoked again with the same desired set on
\* the store that the interrupted run left
RunResume ==
    /\ run.pc \in {"crashed", "raised"}
    /\ \E r \in {RunToEnd(db, fav, run)} :
          RunStep(r.db, fav, [run EXCEPT !.pc = "resumed", !.err = r.err])

\* a run of the orchestrator step by step, with faults, crashes and resumes
RunNext ==
    \/ RunStart
    \/ RunOpen
    \/ RunDedupe
    \/ RunIndex
    \/ RunLink
    \/ RunIcon
    \/ RunFinalize
    \/ RunCut
    \/ RunResume

RunSpec == RunInit /\ [][RunNext]_vars

\* the sets of root names that a roots table or the guid rows of a file hold
RootSubsets == {{}, {"menu"}, {"toolbar", "tags"}, {"unfiled", "mobile"}, RootNames}

\* a handle changes; the stores do not
HandleStep(h2) ==
    /\ handle' = h2
    /\ UNCHANGED <<db, pre, last, prev, steps, fav, prefav, run, readonly, walk>>

\* a places file before `with PlacesDB(path)`: with or without a roots
\* table, with or without a guid column
OpenInit ==
    /\ \E ht \in BOOLEAN, hg \in BOOLEAN, rs \in RootSubsets, gs \in RootSubsets :
          /\ ~ht => rs = {}
          /\ ~hg => gs = {}
          /\ handle = [NoHandle EXCEPT !.file =
                          [has_roots_table |-> ht, roots |-> [n \in rs |-> root_ids[n]],
                           has_guid |-> hg, guids |-> [n \in gs |-> root_ids[n]]]]
    /\ db = SeedEmpty
    /\ pre = db
    /\ last = NoCall
    /\ prev = NoCall
    /\ steps = 0
    /\ fav = NoIcons
    /\ prefav = NoIcons
    /\ walk = NoWalk
    /\ run = NoRun
    /\ readonly = FALSE

\* __enter__: self.open()
OpenHandle ==
    /\ handle.state = "closed"
    /\ HandleStep(open(handle.file))

\* __exit__: self.close()
CloseHandle ==
    /\ handle.state = "open"
    /\ HandleStep([handle EXCEPT !.state = "closed"])

GetRootFolderId ==
    /\ handle.state = "open"
    /\ \E name \in RootNames :
          HandleStep([handle EXCEPT !.err = "none", !.out = get_root_folder_id(handle, name)])

\* the orchestrator resolves the target root of a desired bookmark
ResolveTarget ==
    /\ handle.state = "open"
    /\ \E path \in PathPool : HandleStep(ResolveTargetOn(handle, path))

\* add_tag looks the tags root up
AddTagOnHandle ==
    /\ handle.state = "open"
    /\ HandleStep(TagsRootOn(handle))

\* opening a places file and asking the handle for its roots
OpenNext ==
    \/ OpenHandle
    \/ CloseHandle
    \/ GetRootFolderId
    \/ ResolveTarget
    \/ AddTagOnHandle

OpenSpec == OpenInit /\ [][OpenNext]_vars

------------------------------------------------------------------------------
(* Reading the bookmark store.                                             *)

\* a store with a hidden place, a stored query, a link without place, a
\* folder without title, the tag folder " V" with a subfolder, and links
\* under the tags root, under the tag folder and under its subfolder
SeedShelf ==
    [places |-> (1 :> Place(U_a, T_A, 0, 3)) @@ (2 :> Place(U_b, T_B, 1, 2))
                @@ (3 :> Place(U_query, <<>>, 0, 1)) @@ (4 :> Place(U_a_frag, <<>>, 0, 1)),
     bookmarks |-> RootRows
        @@ (7 :> Folder(2, 0, T_c))
        @@ (8 :> Folder(7, 0, <<" ">>))
        @@ (9 :> Folder(4, 0, <<" ", "V">>))
        @@ (10 :> Folder(9, 0, T_d))
        @@ (11 :> Link(8, 0, 1, T_A))
        @@ (12 :> Link(10, 0, 1, T_A))
        @@ (13 :> Link(9, 1, 2, T_B))
        @@ (14 :> Link(2, 1, 3, <<>>))
        @@ (15 :> Link(4, 1, 1, T_A))
        @@ (16 :> Link(3, 0, 5, T_B))
        @@ (17 :> Link(3, 1, 2, T_B))
        @@ (18 :> Link(1, 5, 4, <<>>))]

ReadStores == {SeedTagged, SeedForeign, SeedTwoHomes, SeedShelf}

ReadInit ==
    /\ db \in ReadStores
    /\ pre = db
    /\ last = NoCall
    /\ prev = NoCall
    /\ steps = 0
    /\ BookmarkStoreOnly

\* read_all(include_tag_links=False)
ReadAll ==
    \E r \in {read_all(db)} :
        Step(db, [NoCall EXCEPT !.op = "read_all", !.rows = r])

\* reads of a store that links, tags and moves change
ReadNext ==
    \/ ReadAll
    \/ AddLinkTag
    \/ MoveLink

ReadSpec == ReadInit /\ [][ReadNext]_vars

\* every primitive of the handle on a read-write handle
WriteSpec == Init /\ [][HandleNext]_vars

------------------------------------------------------------------------------
(* The process dies inside a primitive.                                    *)

\* the (url, title, tags) arguments of the add_link calls that are cut short
CutInputs == {<<U_b, T_B, <<T_v, T_c>> >>, <<U_a, T_A, <<T_V>> >>}

\* the process is killed inside add_link: the store is what was committed
AddLinkCut ==
    \E p \in {root_ids.menu} \cup NonRootFolders(db), a \in CutInputs :
        \E d2 \in add_link_commits(db, p, a[1], a[2], a[3]) :
            Step(d2, [NoCall EXCEPT !.op = "add_link_cut", !.p = p, !.text = a[2],
                                    !.rows = a[1], !.tags = a[3], !.err = "killed"])

CrashNext ==
    \/ AddLink
    \/ AddLinkCut
    \/ MoveLink

CrashSpec == Init /\ [][CrashNext]_vars

-----------------------------------------------------------------------------
(* The ancestor walks on parent maps of any shape.                         *)

BlankTitle == <<" ">>

\* the parents given to the rows of a damaged store: none, a root, a row of
\* the store (the row itself included) and an id that names no row, past
\* the four rows that follow the roots
NoSuchRow == NextRowId(RootRows) + 5

\* stores whose parent pointers may loop or dangle: the menu root under the
\* tree root or under folder 8, folders 7, 8 and 9 and link 10
WalkStores ==
    {[places |-> (1 :> Place(U_a, T_A, 0, 1)),
      bookmarks |-> [RootRows EXCEPT ![root_ids.menu].parent = pm]
                    @@ (7 :> Folder(p7, 0, T_c)) @@ (8 :> Folder(p8, 0, T_v))
                    @@ (9 :> Folder(p9, 0, BlankTitle)) @@ (10 :> Link(p10, 0, 1, T_A))] :
        pm \in {1, 8}, p7 \in {0, 2, 4, 7, 8, 9, NoSuchRow},
        p8 \in {2, 4, 7, 8, 9, NoSuchRow}, p9 \in {7, 8, 9, NoSuchRow}, p10 \in {9, NoSuchRow}}

WalkInit ==
    /\ db \in WalkStores
    /\ pre = db
    /\ last = NoCall
    /\ prev = NoCall
    /\ steps = 0
    /\ fav = NoIcons
    /\ prefav = NoIcons
    /\ run = NoRun
    /\ readonly = FALSE
    /\ handle = NoHandle
    /\ walk = NoWalk

WalkFrame == UNCHANGED <<db, pre, last, prev, steps, fav, prefav, run, readonly, handle>>

\* the ids a walk is started from: none, a root, rows of the store, no row
WalkNodes == {0, root_ids.menu, 7, 9, 10, NoSuchRow}

\* a caller enters one of the three methods
EnterDescendsFrom ==
    /\ walk.pc = "idle"
    /\ \E node \in WalkNodes, ancestor \in {root_ids.tags, 7, NoSuchRow + 1} :
           walk' = EnterWalk("_descends_from", node, ancestor)
    /\ WalkFrame

EnterNearestTagFolderName ==
    /\ walk.pc = "idle"
    /\ \E node \in WalkNodes : walk' = EnterWalk("_nearest_tag_folder_name", node, root_ids.tags)
    /\ WalkFrame

EnterFolderPath ==
    /\ walk.pc = "idle"
    /\ \E node \in WalkNodes : walk' = EnterWalk("_folder_path", node, 0)
    /\ WalkFrame

DescendsStep ==
    /\ walk.pc = "loop"
    /\ walk.fn = "_descends_from"
    /\ walk' = DescendsIteration(db, walk)
    /\ WalkFrame

NearestTagStep ==
    /\ walk.pc = "loop"
    /\ walk.fn = "_nearest_tag_folder_name"
    /\ walk' = NearestTagIteration(db, walk)
    /\ WalkFrame

FolderPathStep ==
    /\ walk.pc = "loop"
    /\ walk.fn = "_folder_path"
    /\ walk' = FolderPathIteration(db, walk)
    /\ WalkFrame

WalkStep == DescendsStep \/ NearestTagStep \/ FolderPathStep

WalkNext ==
    \/ EnterDescendsFrom
    \/ EnterNearestTagFolderName
    \/ EnterFolderPath
    \/ DescendsStep
    \/ NearestTagStep
    \/ FolderPathStep

WalkSpec == WalkInit /\ [][WalkNext]_vars

\* a method that was entered keeps executing: the loop is sequential code
WalkLiveSpec == WalkSpec /\ WF_vars(WalkStep)

-----------------------------------------------------------------------------
(* Properties.                                                             *)

\* the rows of a table a call deleted
Deleted(before, after) == Cardinality(DOMAIN before \ DOMAIN after)

\* a link that is not a tag reference
IsGenuineLink(d, i) == i \in LinkIds(d) /\ ~_descends_from(d, i, root_ids.tags)

\* two consecutive runs of the orchestrator on the same desired set
RanTwice ==
    /\ last.op = "apply" /\ prev.op = "apply"
    /\ last.rows = prev.rows /\ last.dedupe = prev.dedupe
    /\ last.err = "none" /\ prev.err = "none"

\* C1: the second of two consecutive runs on the same desired set reports
\* added_links = 0 and moved_links = 0 and leaves the number of link rows and
\* the number of folder rows as the first run left them
C1_SecondRunChangesNothing ==
    RanTwice =>
        /\ last.stats.added_links = 0
        /\ last.stats.moved_links = 0
        /\ Cardinality(LinkIds(db)) = Cardinality(LinkIds(pre))
        /\ Cardinality(FolderIds(db)) = Cardinality(FolderIds(pre))

\* the normalized urls of the desired set are pairwise distinct
DistinctUrls(rows) ==
    \A i, j \in 1..Len(rows) :
        i # j => normalize_url(rows[i].url) # normalize_url(rows[j].url)

\* the read_all entries of a url
EntriesOf(d, url) == {e \in {read_all(d)[k] : k \in 1..Len(read_all(d))} : e.url = url}

\* the folder the path of a desired bookmark names
TargetFolder(d, b) == EnsureTarget(d, _resolve_target_root_and_relpath(b.path)).id

\* C2: after a successful run (dedupe enabled, as by default) on a desired set
\* with pairwise distinct normalized urls, read_all returns for each desired
\* bookmark exactly one link of its url, under the folder its path resolves
\* to, with the desired title (when one is given) and with every desired tag
\* name (in the lower case read_all reports) among its tags
C2_DesiredLinksAreRead ==
    (last.op = "apply" /\ last.dedupe /\ last.err = "none" /\ DistinctUrls(last.rows)) =>
        \A k \in 1..Len(last.rows) :
            /\ Cardinality(EntriesOf(db, normalize_url(last.rows[k].url))) = 1
            /\ \A e \in EntriesOf(db, normalize_url(last.rows[k].url)) :
                /\ e.parent_id = TargetFolder(db, last.rows[k])
                /\ Strip(last.rows[k].title) # <<>> => e.title = Strip(last.rows[k].title)
                /\ \A n \in 1..Len(last.rows[k].tags) :
                       Lower(Strip(last.rows[k].tags[n])) \in e.tags

\* C3: no two genuine links share a (parent, place) pair and no two tag
\* references share a (tag folder, place) pair
C3_LinksUniquePerParentAndPlace ==
    \A i, j \in LinkIds(db) :
        (/\ db.bookmarks[i].parent = db.bookmarks[j].parent
         /\ db.bookmarks[i].fk = db.bookmarks[j].fk) => i = j

\* C4: no folder has two child folders with the same name key
C4_FoldersUniquePerNameKey ==
    \A i, j \in FolderIds(db) :
        (/\ db.bookmarks[i].parent = db.bookmarks[j].parent
         /\ _folder_component_key(db.bookmarks[i].title)
                = _folder_component_key(db.bookmarks[j].title)) => i = j

\* titles that differ only by a leading symbol prefix, case or whitespace
TitleVariants == {{T_c, T_C, T_star_c, T_plus_c}, {T_c_d, T_c__d}}

\* the path a folder call asks for
AskedPath(call) == IF call.op = "add_folder" THEN <<call.text>> ELSE call.rows

\* two different paths whose components are variants of each other
VariantPaths(x, y) ==
    /\ x # y
    /\ Len(x) = Len(y)
    /\ \A k \in 1..Len(x) : \E g \in TitleVariants : x[k] \in g /\ y[k] \in g

\* two consecutive add_folder / ensure_folder_path calls under one parent
\* that ask for variants of one path
AskedVariants ==
    /\ last.op \in {"add_folder", "ensure_folder_path"}
    /\ prev.op \in {"add_folder", "ensure_folder_path"}
    /\ last.p = prev.p
    /\ last.err = "none" /\ prev.err = "none"
    /\ VariantPaths(AskedPath(prev), AskedPath(last))

\* C5: add_folder and ensure_folder_path called under the same parent with
\* variants of one title return the same folder id, and the second call
\* inserts no row, whichever variant is asked for first
C5_VariantsResolveToOneFolder ==
    AskedVariants => last.id = prev.id /\ BookmarkIds(db) = BookmarkIds(pre)

\* C5 happens: the second of two variant calls found the folder of the first
C5_Witness ==
    AskedVariants /\ last.id = prev.id /\ last.id \notin RootIdSet

\* a title that starts with a symbol
Decorated(title) == title # <<>> /\ Head(title) \in {"*", "+"}

\* C6: a call changes the title of an existing folder only from a title
\* without a leading symbol to a title with one; a title with a leading symbol
\* is never changed
C6_TitleUpgradeIsOneWay ==
    last.op # "none" =>
        \A f \in FolderIds(pre) \cap FolderIds(db) :
            db.bookmarks[f].title # pre.bookmarks[f].title =>
                ~Decorated(pre.bookmarks[f].title) /\ Decorated(db.bookmarks[f].title)

\* C6 happens: add_folder found a folder whose title has a leading symbol
\* when asked for another variant of it
C6_Witness ==
    /\ last.op = "add_folder" /\ last.err = "none"
    /\ last.id \in FolderIds(pre)
    /\ Decorated(pre.bookmarks[last.id].title)
    /\ Strip(last.text) # pre.bookmarks[last.id].title

\* C7: after dedupe no two place rows have urls with the same normalized form
C7_OnePlacePerNormalizedUrl ==
    last.op = "dedupe" =>
        \A p, q \in PlaceIds(db) :
            normalize_url(db.places[p].url) = normalize_url(db.places[q].url) => p = q

\* the genuine links read_all returns for a normalized url
ReadOf(d, key) == {i \in ReadAllIds(d) : normalize_url(JoinedUrl(d, i)) = key}

\* the genuine link rows of a normalized url
GenuineOf(d, key) ==
    {i \in LinkIds(d) : IsGenuineLink(d, i) /\ normalize_url(JoinedUrl(d, i)) = key}

\* C8: after dedupe, of every normalized url that read_all returned before,
\* one genuine link is left, the lowest id of those returned before, and
\* read_all returns the url once
C8_LowestLinkSurvives ==
    last.op = "dedupe" =>
        \A key \in {normalize_url(JoinedUrl(pre, i)) : i \in ReadAllIds(pre)} \ {<<>>} :
            /\ GenuineOf(db, key) = {SetMin(ReadOf(pre, key))}
            /\ Cardinality(ReadOf(db, key)) = 1

\* C9: dedupe returns the number of place rows and link rows it deleted, and
\* the run reports that number as deduped_bookmark_rows
C9_RemovedCountsDeletedRows ==
    last.op \in {"dedupe", "apply"} =>
        last.removed = Deleted(pre.places, db.places) + Deleted(pre.bookmarks, db.bookmarks)

\* the place rows the last call deleted
GonePlaces == PlaceIds(pre) \ PlaceIds(db)

\* the lowest id among the places that had the url of place p
LowestOfUrl(p) == SetMin({q \in PlaceIds(pre) : pre.places[q].url = pre.places[p].url})

\* C10: the place dedupe keeps of a url is the one with the lowest id, every
\* remaining link that pointed at a deleted place points at the kept one, and
\* no link points at a place that is gone
C10_MergeKeepsLowestPlace ==
    last.op \in {"dedupe", "apply"} =>
        /\ \A p \in GonePlaces : LowestOfUrl(p) # p /\ LowestOfUrl(p) \in PlaceIds(db)
        /\ \A l \in LinkIds(pre) \cap LinkIds(db) :
               pre.bookmarks[l].fk \in GonePlaces =>
                   db.bookmarks[l].fk = LowestOfUrl(pre.bookmarks[l].fk)
        /\ \A l \in LinkIds(db) : db.bookmarks[l].fk \in PlaceIds(db)

\* C10 happens: dedupe deleted a place that a link pointed at, the link is
\* left, and so is a tag reference that pointed at a deleted place
C10_Witness ==
    /\ last.op = "dedupe"
    /\ \E l \in LinkIds(pre) \cap LinkIds(db) :
           pre.bookmarks[l].fk \in GonePlaces /\ IsGenuineLink(db, l)
    /\ \E l \in LinkIds(pre) \cap LinkIds(db) :
           pre.bookmarks[l].fk \in GonePlaces /\ ~IsGenuineLink(db, l)

-----------------------------------------------------------------------------
(* Reference counts.                                                       *)

\* the links (genuine links and tag references) whose foreign key is place p
ReferencingLinks(d, p) == {i \in LinkIds(d) : d.bookmarks[i].fk = p}

-----------------------------------------------------------------------------
(* The icon store.                                                         *)

\* the page rows that the last set_page_icon call resolved its url to, in
\* the store before the call (none when the call had to create the page)
ResolvedPage ==
    {p \in DOMAIN prefav.pages :
        /\ prefav.pages[p] = normalize_url(last.text)
        /\ \A q \in DOMAIN prefav.pages : prefav.pages[q] = prefav.pages[p] => p <= q}

\* C12: from an icon store in which no page has two mappings, after any
\* sequence of set_page_icon calls every page row has at most one mapping
\* row, and a call for a page that already has a mapping returns false and
\* leaves the mapping table as it was, whatever the icon url.
C12_OneMappingPerPage ==
    /\ \A p \in DOMAIN fav.pages : Cardinality(MappingsOf(fav, p)) <= 1
    /\ (last.op = "set_page_icon" /\ \E p \in ResolvedPage : MappingsOf(prefav, p) # {}) =>
           /\ ~last.created
           /\ fav.maps = prefav.maps

\* a call that names another icon url than the one its page is mapped to
C12_Witness ==
    /\ last.op = "set_page_icon"
    /\ \E p \in ResolvedPage :
           /\ MappingsOf(prefav, p) # {}
           /\ \A k \in MappingsOf(prefav, p) :
                  prefav.icons[prefav.maps[k].icon_id].url # normalize_url(last.tags)
    /\ normalize_url(last.tags) # <<>>

\* the mappings, in the store before the last call, of the page rows that
\* share the url of page p
MappingsOfUrl(p) ==
    {k \in DOMAIN prefav.maps :
        /\ prefav.maps[k].page_id \in DOMAIN prefav.pages
        /\ prefav.pages[prefav.maps[k].page_id] = fav.pages[p]}

\* C13: FaviconsDB.dedupe completes on every icon store with duplicate
\* pages, duplicate icons or several mappings per page; afterwards no two
\* page rows share a url, no two icon rows share a url, and every page that
\* had a mapping has exactly one, to the lowest icon id and with the largest
\* expiry of that page's mappings after the merges.
C13_DedupeCompletesAndIsCanonical ==
    last.op = "dedupe_icons" =>
        /\ last.err = "none"
        /\ \A p, q \in DOMAIN fav.pages : fav.pages[p] = fav.pages[q] => p = q
        /\ \A i, j \in DOMAIN fav.icons : fav.icons[i].url = fav.icons[j].url => i = j
        /\ \A p \in DOMAIN fav.pages :
               MappingsOfUrl(p) # {} =>
                   /\ Cardinality(MappingsOf(fav, p)) = 1
                   /\ \A k \in MappingsOf(fav, p) :
                          /\ fav.maps[k].icon_id =
                                 SetMin({IconSurvivor(prefav, prefav.maps[m].icon_id) :
                                            m \in MappingsOfUrl(p)})
                          /\ fav.maps[k].expire_ms =
                                 SetMax({prefav.maps[m].expire_ms : m \in MappingsOfUrl(p)})

-----------------------------------------------------------------------------
(* The read-only handle.                                                   *)

\* the path of the last ensure_folder_path call has a component left to
\* resolve once blank components and a leading root alias are taken off
MustResolve(path) ==
    /\ StripComps(path) # <<>>
    /\ ~(Len(StripComps(path)) = 1 /\ _resolve_root_alias(StripComps(path)[1]) # 0)

\* C20: on a handle opened read-only every mutating operation (add_folder,
\* ensure_folder_path with a component to resolve, move_folder, add_link,
\* move_link, add_tag, add_link_tag, dedupe_bookmark_links_by_url,
\* recompute_foreign_count) raises NotWritable and no row of the store
\* changes.
C20_ReadOnlyRaisesNotWritable ==
    (readonly /\ last.op # "none") =>
        /\ db = pre
        /\ (last.op = "ensure_folder_path" => MustResolve(last.rows)) =>
               last.err = "NotWritable"

\* a path that must resolve a component raised, and so did the add_link
\* after it
C20_Witness ==
    /\ readonly
    /\ prev.op = "ensure_folder_path" /\ MustResolve(prev.rows)
    /\ prev.err = "NotWritable"
    /\ last.op = "add_link" /\ last.err = "NotWritable"

-----------------------------------------------------------------------------
(* The stepped run of the orchestrator.                                    *)

\* every link's fk names a row of moz_places and every node's parent names
\* a folder row; the root row (id 1) alone has parent 0
ReferentiallyConsistent(d) ==
    \A i \in BookmarkIds(d) :
        /\ d.bookmarks[i].type = TypeLink => d.bookmarks[i].fk \in PlaceIds(d)
        /\ \/ i = 1 /\ d.bookmarks[i].parent = 0
           \/ /\ d.bookmarks[i].parent \in BookmarkIds(d)
              /\ d.bookmarks[d.bookmarks[i].parent].type = TypeFolder

\* C17: the bookmark store on disk is referentially consistent after every
\* commit of a run, hence in whatever state a fault or a crash leaves it:
\* every link's foreign key names an existing Place and every node's parent
\* names an existing folder.
C17_CommitsAreConsistent == ReferentiallyConsistent(db)

\* a crash in the middle of the link loop has left a store that differs from
\* the initial one and from the one the whole run would have produced
C17_Witness ==
    /\ run.pc = "crashed"
    /\ db # run.origin
    /\ Cardinality(BookmarkIds(db)) > Cardinality(BookmarkIds(run.origin))
    /\ db # apply_bookmarks_to_firefox(run.origin, run.rows, run.dedupe).db

\* C14: an iteration of the icon loop never fails the run, whatever the
\* icon association raises: the run stays in APPLY_ICONS or goes on to
\* FINALIZE, a failed association adds exactly one to icon_errors, the loop
\* moves to the next icon row, and the bookmark store and the link
\* statistics of APPLY_LINKS are left as they were committed.
C14_IconErrorIsCountedAndSkipped ==
    [][(run.pc = "icons" /\ run'.pc # "crashed") =>
          /\ db' = db
          /\ run'.stats = run.stats
          /\ run'.err = "none"
          /\ run'.pc \in {"icons", "finalize"}
          /\ Len(run'.trace) = Len(run.trace) + 1
          /\ run'.icon_errors =
                run.icon_errors + (IF run'.trace[Len(run'.trace)] = "icon_error" THEN 1 ELSE 0)
          /\ run.i < Len(icon_rows(run.rows)) => run'.pc = "icons" /\ run'.i = run.i + 1
          /\ run.i = Len(icon_rows(run.rows)) => run'.pc = "finalize"]_vars

\* a finished run whose first icon association failed on a fault of the
\* environment and whose second one was made, with the links of both rows added
C14_Witness ==
    /\ run.pc = "done"
    /\ run.icon_errors = 1
    /\ run.icon_links = 1
    /\ run.stats.added_links = 2
    /\ \E k \in 1..(Len(run.trace) - 1) :
          run.trace[k] = "icon_error" /\ run.trace[k + 1] = "icon_set"
    /\ Cardinality(LinkIds(db)) >= Cardinality(LinkIds(run.origin)) + 2

\* the place of a logged event in the order of the phases
PhaseRank(e) ==
    CASE e = "open" -> 1
      [] e = "dedupe" -> 2
      [] e = "index" -> 3
      [] e = "link" -> 4
      [] e \in {"icon_error", "icon_set", "icon_kept"} -> 5
      [] e = "recompute" -> 6
      [] e = "validate_places" -> 7
      [] e = "validate_icons" -> 8

\* the number of events of rank k in trace t
Occurrences(t, k) == Cardinality({n \in 1..Len(t) : PhaseRank(t[n]) = k})

\* C15: a run that returns statistics has gone through OPEN, DEDUPE (iff
\* enabled), INDEX, one APPLY_LINKS iteration per row, one APPLY_ICONS
\* iteration per icon row (iff enabled and the icon store is usable), and
\* FINALIZE, in this order and each once: the recount comes before the
\* validation of the bookmark store, which comes before that of the icon
\* store.
C15_PhasesInOrder ==
    run.pc = "done" =>
        /\ \A n \in 1..(Len(run.trace) - 1) :
              PhaseRank(run.trace[n]) <= PhaseRank(run.trace[n + 1])
        /\ \A k \in {1, 3, 6, 7} : Occurrences(run.trace, k) = 1
        /\ Occurrences(run.trace, 2) = (IF run.dedupe THEN 1 ELSE 0)
        /\ Occurrences(run.trace, 4) = Len(run.rows)
        /\ Occurrences(run.trace, 5) =
              (IF run.apply_icons /\ run.usable THEN Len(icon_rows(run.rows)) ELSE 0)
        /\ Occurrences(run.trace, 8) = (IF run.usable THEN 1 ELSE 0)

\* a finished run with every phase: dedupe, two links, one icon row, and the
\* validation of both stores
C15_Witness ==
    /\ run.pc = "done"
    /\ run.dedupe /\ run.apply_icons /\ run.usable
    /\ Len(run.rows) = 2
    /\ Len(icon_rows(run.rows)) = 1
    /\ Len(run.trace) = 9

\* the run has ended: it returned its statistics or it raised
Terminated == run.pc \in {"done", "raised"}

\* C16: a run that has committed a change to the bookmark store has
\* executed recompute_foreign_count and validate_integrity when it ends,
\* whether it returns its statistics or raises.
C16_ValidatedAtEndOfWriteSession ==
    (Terminated /\ db # run.origin) =>
        /\ Occurrences(run.trace, 6) = 1
        /\ Occurrences(run.trace, 7) = 1

RECURSIVE PathWalk(_, _, _)
\* the titles from the root down to node id
PathWalk(d, id, seen) ==
    IF id \notin BookmarkIds(d) \/ id \in seen THEN <<>>
    ELSE Append(PathWalk(d, d.bookmarks[id].parent, seen \cup {id}), d.bookmarks[id].title)

\* a folder by its path, whose last component is its title
FolderView(d, i) == PathWalk(d, i, {})

\* a link by (URL, parent path, title)
LinkView(d, i) == <<JoinedUrl(d, i), PathWalk(d, d.bookmarks[i].parent, {}), d.bookmarks[i].title>>

\* how many rows of ids have each view
Counted(ids, view(_)) ==
    [v \in {view(i) : i \in ids} |-> Cardinality({i \in ids : view(i) = v})]

\* the folders, the non-tag links and the tag references of a store, without
\* row ids, positions and reference counts
StoreView(d) ==
    [folders |-> Counted(FolderIds(d), LAMBDA i : FolderView(d, i)),
     links |-> Counted({i \in LinkIds(d) : ~_descends_from(d, i, root_ids.tags)},
                       LAMBDA i : LinkView(d, i)),
     tag_refs |-> Counted({i \in LinkIds(d) : _descends_from(d, i, root_ids.tags)},
                          LAMBDA i : LinkView(d, i))]

\* C18: when a run is cut short after any of its commits and
\* apply_bookmarks_to_firefox is invoked again with the same desired set,
\* the store has the folders, the non-tag links and the tag references that
\* the run would have left on the initial store without the interruption.
C18_ResumeConverges ==
    run.pc = "resumed" => StoreView(db) = StoreView(RunToEnd(run.origin, prefav, run).db)

\* the run is inside apply_bookmarks_to_firefox: it has neither been killed
\* nor been invoked again
InTheCall == run.pc \notin {"crashed", "resumed"}

\* C19 as stated: whenever a store operation of a run meets a lock or busy
\* condition, the run terminates by raising StoreLocked.
C19_AnyLockRaisesStoreLocked ==
    (InTheCall /\ run.fault = "locked") => run.pc = "raised" /\ run.err = "StoreLocked"

\* C19: a lock or busy condition met by a store operation outside the
\* per-bookmark icon association ends the run with StoreLocked, any other
\* failure of such an operation ends it with the OperationalError unchanged,
\* and no phase has run twice when the error is raised; a failure met inside
\* the icon association of a bookmark, lock or not, is counted as an icon
\* error and the run goes on.
C19_LockOutsideIconsRaisesStoreLocked ==
    /\ (run.pc = "raised" /\ run.fault = "locked") => run.err = "StoreLocked"
    /\ (run.pc = "raised" /\ run.fault = "io") => run.err = "OperationalError"
    /\ (run.pc = "raised" /\ run.fault # "none") =>
          \A k \in {1, 2, 3, 6, 7, 8} : Occurrences(run.trace, k) <= 1
    /\ (InTheCall /\ run.pc # "raised" /\ run.fault # "none") =>
          /\ run.icon_errors >= 1
          /\ Occurrences(run.trace, 5) >= 1

\* a run that raised StoreLocked on a lock met after changes were committed
C19_Witness ==
    /\ run.pc = "raised"
    /\ run.fault = "locked"
    /\ run.err = "StoreLocked"
    /\ Occurrences(run.trace, 4) >= 1
    /\ db # run.origin

-----------------------------------------------------------------------------
(* Opening a handle.                                                       *)

\* C21: a handle opened on a file in which no root folder resolves (no row
\* in the roots table, no row with a well-known guid) has raised
\* RootsNotFound at open time: no open handle is without roots.
C21_RootlessOpenRaises ==
    (handle.state = "open" /\ _discover_root_ids(handle.file) = NoRoots) =>
        handle.err = "RootsNotFound"

-----------------------------------------------------------------------------
(* The folder tree.                                                        *)

RECURSIVE ChainOf(_, _, _)
\* the nodes on the parent chain of n, n included, up to the first node that
\* is missing or met twice
ChainOf(d, n, seen) ==
    IF n \notin BookmarkIds(d) \/ n \in seen THEN seen
    ELSE ChainOf(d, d.bookmarks[n].parent, seen \cup {n})

\* C22: move_folder of a well-known root raises RootImmutable; move_folder
\* of another folder under itself or under one of its descendants raises
\* CyclicMove; either way the store is as it was before the call.
C22_MoveFolderRejections ==
    (last.op = "move_folder" /\ ~readonly) =>
        /\ last.x \in RootIdSet => last.err = "RootImmutable" /\ db = pre
        /\ (last.x \notin RootIdSet /\ last.x \in ChainOf(pre, last.p, {})) =>
              last.err = "CyclicMove" /\ db = pre
        /\ last.err \in {"RootImmutable", "CyclicMove"} =>
              last.x \in RootIdSet \/ last.x \in ChainOf(pre, last.p, {})

\* a folder was asked to move under a folder below it
C22_Witness ==
    /\ last.op = "move_folder"
    /\ last.err = "CyclicMove"
    /\ last.p # last.x
    /\ last.x \in ChainOf(pre, last.p, {})
    /\ db = pre

\* the well-known roots on the parent chain of folder i
RootsAbove(d, i) == ChainOf(d, i, {}) \cap RootIdSet

\* C23: after any sequence of add_folder, ensure_folder_path, add_tag and
\* move_folder calls on an acyclic tree, the folder tree has no cycle (every
\* parent chain climbs to the top of the tree) and the parent chain of every
\* folder that is not a root passes through exactly one well-known root.
C23_ChainsEndAtOneRoot ==
    \A i \in FolderIds(db) \ (RootIdSet \cup {1}) :
        /\ 1 \in ChainOf(db, i, {})
        /\ Cardinality(RootsAbove(db, i)) = 1

\* C24: each well-known root keeps the id, the parent and the title it had
\* when the store was opened, and the top of the tree holds no folder other
\* than the well-known roots.
C24_RootsUntouched ==
    /\ \A r \in RootIdSet :
          /\ r \in FolderIds(db)
          /\ db.bookmarks[r].parent = RootRows[r].parent
          /\ db.bookmarks[r].title = RootRows[r].title
    /\ {i \in FolderIds(db) : db.bookmarks[i].parent = 1} = RootIdSet

(***************************************************************************)
(* Runs without an icon store.                                             *)

\* C25: a run whose icon store path is not given, or names no file, or names
\* a file that lacks one of the three required tables, dedupes, associates
\* and validates no icons, leaves the icon store as it was, and is not
\* stopped by it: it raises only what the bookmark store raises, and the
\* statistics it returns have icon_links = 0 and icon_errors = 0.
C25_NoIconStoreNoIconWork ==
    (run.pc # "idle" /\ (~run.iconfile.given \/ ~run.iconfile.exists
                         \/ ~(RequiredTables \subseteq run.iconfile.tables))) =>
        /\ fav = prefav
        /\ run.deduped_favicon_rows = 0
        /\ Occurrences(run.trace, 5) = 0
        /\ Occurrences(run.trace, 8) = 0
        /\ run.icon_links = 0 /\ run.icon_errors = 0
        /\ run.pc # "icons"
        /\ (run.pc = "raised" /\ run.fault = "none") => run.err = "IntegrityError"
        /\ run.pc = "done" =>
              /\ Occurrences(run.trace, 4) = Len(run.rows)
              /\ Occurrences(run.trace, 7) = 1

\* a run given a file that lacks a required table, with icons wanted for a
\* row that has one, returned its statistics
C25_Witness ==
    /\ run.pc = "done"
    /\ run.iconfile.given /\ run.iconfile.exists
    /\ ~(RequiredTables \subseteq run.iconfile.tables)
    /\ run.apply_icons /\ run.dedupe
    /\ icon_rows(run.rows) # <<>>
    /\ db # run.origin

(***************************************************************************)
(* Idempotence of the link primitives.                                     *)

\* the last two calls are the same operation with the same arguments
SameCallTwice(op) ==
    /\ last.op = op /\ prev.op = op
    /\ last.p = prev.p /\ last.x = prev.x /\ last.text = prev.text
    /\ last.rows = prev.rows /\ last.tags = prev.tags

\* C26: add_link called a second time with the same parent, URL, title and
\* tags returns the id of the first call and leaves the store as the first
\* call left it: no Place, Link, tag folder or tag reference is inserted and
\* no title is rewritten.
C26_AddLinkTwiceChangesNothing ==
    (SameCallTwice("add_link") /\ prev.err = "none") =>
        /\ last.err = "none"
        /\ last.id = prev.id
        /\ db = pre

\* the first call inserted a link and tagged it, the second is the same call
C26_Witness ==
    /\ SameCallTwice("add_link")
    /\ prev.err = "none" /\ last.err = "none"
    /\ last.tags # <<>>
    /\ last.id \in LinkIds(db)
    /\ \E t \in LinkIds(db) \ {last.id} : db.bookmarks[t].fk = db.bookmarks[last.id].fk
    /\ db = pre

\* C27: move_link of a link that already lives under the given parent leaves
\* its parent and its position as they were, so a second move_link(link,
\* parent) leaves the store of the first.
C27_MoveLinkToSameParentChangesNothing ==
    (last.op = "move_link" /\ last.err = "none"
       /\ pre.bookmarks[last.x].parent = last.p) => db = pre

\* the links of store d that refer to Place fk from the folder that holds
\* link t in the store after the call (none if that folder is new)
RefsFrom(d, t, fk) == LinksAt(d, db.bookmarks[t].parent, fk)

\* C28: add_link_tag(link, tag) inserts a tag reference under the tag's
\* folder iff that folder held no Link of the link's Place; created is true
\* exactly when a row was inserted; the id returned is that of the existing
\* or of the inserted reference; so the call never takes the number of
\* references of the tag to the Place beyond one.
C28_AddLinkTagInsertsIffAbsent ==
    (last.op = "add_link_tag" /\ last.err = "none") =>
        /\ last.id \in LinkIds(db)
        /\ db.bookmarks[last.id].fk = pre.bookmarks[last.x].fk
        /\ db.bookmarks[last.id].parent \in KeyMatches(db, root_ids.tags, Strip(last.text))
        /\ LinkIds(db) \ LinkIds(pre) # {}
              <=> RefsFrom(pre, last.id, pre.bookmarks[last.x].fk) = {}
        /\ last.created <=> LinkIds(db) \ LinkIds(pre) # {}
        /\ LinkIds(db) \ LinkIds(pre) \subseteq {last.id}
        /\ LinkIds(pre) \subseteq LinkIds(db)
        /\ last.id \in LinkIds(pre) =>
              last.id \in RefsFrom(pre, last.id, pre.bookmarks[last.x].fk)
        /\ Cardinality(RefsFrom(db, last.id, pre.bookmarks[last.x].fk)) =
              (IF RefsFrom(pre, last.id, pre.bookmarks[last.x].fk) = {} THEN 1
               ELSE Cardinality(RefsFrom(pre, last.id, pre.bookmarks[last.x].fk)))

\* the same link was tagged twice with the same tag: the first call inserted
\* the reference, the second returned it
C28_Witness ==
    /\ SameCallTwice("add_link_tag")
    /\ prev.err = "none" /\ last.err = "none"
    /\ prev.created /\ ~last.created
    /\ last.id = prev.id
    /\ last.id # last.x
    /\ db = pre

(***************************************************************************)
(* The statistics of APPLY_LINKS.                                          *)

\* the rows among the first n desired bookmarks whose normalized URL is not
\* empty
WithUrl(rows, n) == {k \in 1..n : k <= Len(rows) /\ normalize_url(rows[k].url) # <<>>}

\* the number of desired bookmarks that APPLY_LINKS has gone through
LinksDone(r) ==
    CASE r.pc \in {"open", "dedupe", "index"} -> 0
      [] r.pc = "links" -> r.i - 1
      [] OTHER -> Len(r.rows)

\* one iteration of APPLY_LINKS went through a bookmark with URL url: it was
\* counted as touched, as added iff the URL was not indexed, as moved iff it
\* was indexed under another parent than the target folder, where the link
\* is afterwards
LinkCounted(r, r2, d2, url) ==
    /\ r2.stats.touched_links = r.stats.touched_links + 1
    /\ r2.stats.added_links =
          r.stats.added_links + (IF url \notin DOMAIN r.index THEN 1 ELSE 0)
    /\ url \in DOMAIN r2.index
    /\ d2.bookmarks[r2.index[url].id].parent = r2.index[url].parent
    /\ r2.stats.moved_links =
          r.stats.moved_links
          + (IF url \in DOMAIN r.index /\ r.index[url].parent # r2.index[url].parent
             THEN 1 ELSE 0)

\* an iteration of APPLY_LINKS that did not raise
C29_Iteration ==
    (run.pc = "links" /\ run'.pc \in {"links", "icons", "finalize"}) =>
        IF normalize_url(run.rows[run.i].url) = <<>>
        THEN run'.stats = run.stats /\ run'.index = run.index /\ db' = db
        ELSE LinkCounted(run, run', db', normalize_url(run.rows[run.i].url))

\* C29: touched_links is the number of desired bookmarks with a non-empty
\* normalized URL, added_links the number of those whose URL was not in the
\* index when they were processed, moved_links the number of those that were
\* indexed under another parent than their target folder; hence added_links
\* + moved_links <= touched_links.
C29_LinkStatistics ==
    /\ [][C29_Iteration]_vars
    /\ [](run.pc \in {"open", "dedupe", "index", "links", "icons", "finalize", "done"} =>
            /\ run.stats.touched_links = Cardinality(WithUrl(run.rows, LinksDone(run)))
            /\ run.stats.added_links + run.stats.moved_links <= run.stats.touched_links)

\* a run returned after skipping a bookmark without URL and moving one
C29_Witness ==
    /\ run.pc = "done"
    /\ Cardinality(WithUrl(run.rows, Len(run.rows))) < Len(run.rows)
    /\ run.stats.moved_links = 1
    /\ run.stats.touched_links = 1

\* the tag references of store d: the Links under the children of the tags
\* root
TagRefs(d) ==
    {i \in LinkIds(d) :
        /\ d.bookmarks[i].parent \in FolderIds(d)
        /\ d.bookmarks[d.bookmarks[i].parent].parent = root_ids.tags}

\* an iteration of APPLY_LINKS that did not raise
LinkIteration ==
    run.pc = "links" /\ run'.pc \in {"links", "icons", "finalize"}

\* C30 as stated: tagged_links counts every tag reference that APPLY_LINKS
\* creates, and none that existed before it was requested.
C30_TaggedCountsEveryNewReference ==
    [][LinkIteration =>
         run'.stats.tagged_links =
            run.stats.tagged_links + Cardinality(TagRefs(db') \ TagRefs(db))]_vars

\* C30, amended: tagged_links counts the tag references that APPLY_LINKS
\* creates for bookmarks whose URL is already indexed; the references that
\* add_link creates for a bookmark it adds are not counted, nor is a
\* reference that existed before it was requested.
C30_TaggedCountsNewReferencesOfIndexedLinks ==
    [][LinkIteration =>
         /\ TagRefs(db) \subseteq TagRefs(db')
         /\ run'.stats.tagged_links =
               run.stats.tagged_links
               + (IF normalize_url(run.rows[run.i].url) \in DOMAIN run.index
                  THEN Cardinality(TagRefs(db') \ TagRefs(db)) ELSE 0)]_vars

\* a run returned that created two tag references, one for a bookmark whose
\* URL was indexed and one for a bookmark it added, and counted one
C30_Witness ==
    /\ run.pc = "done"
    /\ run.stats.tagged_links = 1
    /\ run.stats.added_links = 1
    /\ Cardinality(TagRefs(db)) = Cardinality(TagRefs(run.origin)) + 2

(***************************************************************************)
(* The apply step deletes nothing.                                         *)

\* C31: from the end of DEDUPE on, through INDEX, APPLY_LINKS, APPLY_ICONS
\* and FINALIZE, no step of a run removes a folder, Link, tag reference or
\* Place row: the row ids of the store after the step include those before
\* it, and a tag reference stays a tag reference.
C31_ApplyNeverDeletes ==
    [][run.pc \in {"index", "links", "icons", "finalize"} =>
         /\ BookmarkIds(db) \subseteq BookmarkIds(db')
         /\ PlaceIds(db) \subseteq PlaceIds(db')
         /\ FolderIds(db) \subseteq FolderIds(db')
         /\ TagRefs(db) \subseteq TagRefs(db')]_vars

\* a run returned after moving a link for which no tag is desired, and the
\* tag reference of its URL is still there
C31_Witness ==
    /\ run.pc = "done"
    /\ run.stats.moved_links = 1
    /\ \E k \in 1..Len(run.rows) :
          /\ run.rows[k].tags = <<>>
          /\ \E t \in TagRefs(db) : JoinedUrl(db, t) = normalize_url(run.rows[k].url)

(***************************************************************************)
(* Root aliases in folder paths.                                           *)

\* the root that component comp names: its letters and digits after the
\* leading symbols, in lower case, are an alias; 0 when it names none
RootNamed(comp) ==
    IF \E a \in _ROOT_ALIASES : a[1] = AlnumLower(DropLeadingNonAlnum(Strip(comp)))
    THEN root_ids[(CHOOSE a \in _ROOT_ALIASES :
                      a[1] = AlnumLower(DropLeadingNonAlnum(Strip(comp))))[2]]
    ELSE 0

RECURSIVE Beneath(_, _, _)
\* the folders of d reached from folder cur by one key-matching child per
\* component of comps
Beneath(d, cur, comps) ==
    IF comps = <<>> THEN {cur}
    ELSE UNION {Beneath(d, k, Tail(comps)) : k \in KeyMatches(d, cur, Head(comps))}

\* the last call was ensure_folder_path with a root alias first
AliasFirst(call) ==
    /\ call.op = "ensure_folder_path"
    /\ call.err = "none"
    /\ call.rows # <<>>
    /\ RootNamed(call.rows[1]) # 0

\* C32: ensure_folder_path whose first component is a root alias returns a
\* folder reached from that root by the remaining components, whatever the
\* starting folder, and creates nothing outside that root; two spellings of
\* the alias followed by the same components return the same id.
C32_AliasRestartsAtRoot ==
    /\ AliasFirst(last) =>
          /\ last.id \in Beneath(db, RootNamed(last.rows[1]), Tail(last.rows))
          /\ \A i \in BookmarkIds(db) \ BookmarkIds(pre) :
                RootNamed(last.rows[1]) \in ChainOf(db, i, {})
          /\ Tail(last.rows) = <<>> => db = pre
    /\ (AliasFirst(last) /\ AliasFirst(prev)
          /\ RootNamed(last.rows[1]) = RootNamed(prev.rows[1])
          /\ Tail(last.rows) = Tail(prev.rows)) => last.id = prev.id

\* two spellings of the toolbar alias, from two starting folders, with the
\* same component after it: the second call returns the folder the first
\* created
C32_Witness ==
    /\ AliasFirst(last) /\ AliasFirst(prev)
    /\ last.rows[1] # prev.rows[1]
    /\ last.p # prev.p
    /\ last.p # RootNamed(last.rows[1])
    /\ Tail(last.rows) # <<>> /\ Tail(last.rows) = Tail(prev.rows)
    /\ last.id = prev.id
    /\ last.id \notin BookmarkIds(SeedEmpty)

(***************************************************************************)
(* read_all.                                                               *)

\* the ids of the entries of a read_all result
EntryIds(rows) == {rows[k].id : k \in 1..Len(rows)}

\* the Links of d that have a Place that is not hidden and that do not
\* descend from the tags root
VisibleLinks(d) ==
    {i \in LinkIds(d) :
        /\ d.bookmarks[i].fk \in PlaceIds(d)
        /\ d.places[d.bookmarks[i].fk].hidden = 0
        /\ root_ids.tags \notin ChainOf(d, i, {})}

\* the tag folders of d, the children of the tags root, that hold a Link of
\* Place fk, directly or in a subfolder
TagFoldersOf(d, fk) ==
    {f \in FolderIds(d) :
        /\ d.bookmarks[f].parent = root_ids.tags
        /\ \E j \in LinkIds(d) : d.bookmarks[j].fk = fk /\ f \in ChainOf(d, j, {})}

RECURSIVE TitlesDownTo(_, _, _)
\* the label of the well-known root above folder id, then the titles of the
\* folders from there down to id, those without title left out
TitlesDownTo(d, id, seen) ==
    IF id \notin BookmarkIds(d) \/ id \in seen THEN <<>>
    ELSE IF id \in RootIdSet
    THEN <<_ROOT_LABELS[CHOOSE n \in DOMAIN root_ids : root_ids[n] = id]>>
    ELSE TitlesDownTo(d, d.bookmarks[id].parent, seen \cup {id})
         \o (IF Strip(d.bookmarks[id].title) = <<>> THEN <<>>
             ELSE <<Strip(d.bookmarks[id].title)>>)

\* C33 as stated: read_all returns exactly once every Link whose Place is
\* not hidden and that is not under the tags root, with the names of the tag
\* folders that hold a Link of the same Place as its tag set.
C33_ReadAllAsStated ==
    last.op = "read_all" =>
        /\ EntryIds(last.rows) = VisibleLinks(db)
        /\ Len(last.rows) = Cardinality(VisibleLinks(db))
        /\ \A k \in 1..Len(last.rows) :
              last.rows[k].tags =
                 {Strip(db.bookmarks[f].title) : f \in TagFoldersOf(db, last.rows[k].place_id)}

\* what read_all does return: exactly once every Link whose Place is not
\* hidden and has a URL that is neither empty nor a stored query, and that
\* is not under the tags root; with the path of its parent from the root
\* label down; with the lower-cased names of the tag folders that hold a
\* Link of the same Place, directly or in a subfolder, as its tag set.
ReadAllReturnsVisibleLinks ==
    last.op = "read_all" =>
        /\ EntryIds(last.rows) =
              {i \in VisibleLinks(db) :
                  /\ Strip(db.places[db.bookmarks[i].fk].url) # <<>>
                  /\ Head(Strip(db.places[db.bookmarks[i].fk].url)) # "place:"}
        /\ Len(last.rows) = Cardinality(EntryIds(last.rows))
        /\ \A k \in 1..Len(last.rows) :
              /\ last.rows[k].path =
                    TitlesDownTo(db, db.bookmarks[last.rows[k].id].parent, {})
              /\ last.rows[k].tags =
                    {Lower(Strip(db.bookmarks[f].title)) :
                        f \in {g \in TagFoldersOf(db, last.rows[k].place_id) :
                                  Strip(db.bookmarks[g].title) # <<>>}}
              /\ root_ids.tags \notin ChainOf(db, last.rows[k].id, {})

(***************************************************************************)
(* Sibling positions.                                                      *)

\* the position after the rows of ids under parent in store d: 0 when there
\* is none, else one more than the highest
PositionAfter(d, ids, parent) ==
    IF {j \in ids : d.bookmarks[j].parent = parent} = {} THEN 0
    ELSE SetMax({d.bookmarks[j].position :
                    j \in {k \in ids : d.bookmarks[k].parent = parent}}) + 1

\* C34: a folder, link or tag reference created without an explicit position
\* gets the position after the rows that were under its parent when it was
\* inserted (the older rows and the rows the same call inserted before it),
\* and a folder or link moved without an explicit position gets the position
\* after the rows under the new parent before the move; that is 0 under a
\* parent without children.
C34_PositionIsMaxPlusOne ==
    /\ last.op \in {"add_folder", "ensure_folder_path", "add_tag", "add_link", "add_link_tag"} =>
          \A i \in BookmarkIds(db) \ BookmarkIds(pre) :
              db.bookmarks[i].position =
                 PositionAfter(db, {j \in BookmarkIds(db) : j < i}, db.bookmarks[i].parent)
    /\ (last.op \in {"move_link", "move_folder"} /\ last.err = "none") =>
          db.bookmarks[last.x].position = PositionAfter(pre, BookmarkIds(pre), last.p)

\* a link was added with a tag under a folder that had a child, after
\* which the link was moved to another folder that had children
C34_Witness ==
    /\ prev.op = "add_link" /\ prev.err = "none" /\ prev.tags # <<>>
    /\ Cardinality(BookmarkIds(pre)) >= Cardinality(BookmarkIds(SeedEmpty)) + 4
    /\ last.op = "move_link" /\ last.err = "none" /\ last.x = prev.id
    /\ pre.bookmarks[last.x].position > 0
    /\ db.bookmarks[last.x].position > 0
    /\ last.p # pre.bookmarks[last.x].parent

(***************************************************************************)
(* Commits inside add_link.                                                *)

\* link i of store d carries tag: a tag folder of that name key holds a Link
\* of its Place
Carries(d, i, tag) ==
    \E f \in KeyMatches(d, root_ids.tags, Strip(tag)) :
        LinksAt(d, f, d.bookmarks[i].fk) # {}

\* C35: add_link commits only after its tags are attached, so when the
\* process dies inside add_link the store holds no Link of that call that
\* carries only some of the tags passed to it.
C35_NoLinkWithSomeTags ==
    last.op = "add_link_cut" =>
        \A i \in LinkIds(db) \ LinkIds(pre) :
            db.bookmarks[i].parent = last.p =>
               \A k \in 1..Len(last.tags) : Carries(db, i, last.tags[k])

(***************************************************************************)
(* The target folder of a desired bookmark.                                *)

\* the Links of d whose URL normalizes to url and whose parent is reached
\* from folder root by the components comps
PlacedUnder(d, url, root, comps) ==
    {i \in LinkIds(d) :
        /\ normalize_url(JoinedUrl(d, i)) = url
        /\ d.bookmarks[i].parent \in Beneath(d, root, comps)}

\* C36: only the first component of a desired bookmark's folder path selects
\* a root: after a run, a bookmark whose first component is a root alias has
\* its Link under that root, in the folder that the remaining components
\* name beneath it as ordinary titles.
C36_OnlyFirstComponentSelectsRoot ==
    (last.op = "apply" /\ last.err = "none") =>
        \A k \in 1..Len(last.rows) :
            (/\ normalize_url(last.rows[k].url) # <<>>
             /\ last.rows[k].path # <<>>
             /\ RootNamed(last.rows[k].path[1]) # 0
             /\ \A n \in (k + 1)..Len(last.rows) : last.rows[n].url # last.rows[k].url)
            => PlacedUnder(db, normalize_url(last.rows[k].url),
                           RootNamed(last.rows[k].path[1]),
                           Tail(last.rows[k].path)) # {}

(***************************************************************************)
(* set_page_icon on a page that is mapped already.                         *)

\* C38: a set_page_icon call for a page that already has a mapping leaves
\* the page, icon and mapping tables exactly as they were (no Icon row is
\* created, no Icon's expiry is refreshed) and returns false; the store that
\* is on disk afterwards is the store that was on disk before.
C38_MappedPageCallChangesNothing ==
    (last.op = "set_page_icon" /\ \E p \in ResolvedPage : MappingsOf(prefav, p) # {}) =>
        /\ fav = prefav
        /\ ~last.created
        /\ last.err = "none"

\* calls for a mapped page that name an icon url the store has with another
\* expiry, and calls that name an icon url the store does not have
C38_Witness ==
    /\ last.op = "set_page_icon"
    /\ \E p \in ResolvedPage : MappingsOf(prefav, p) # {}
    /\ \/ \E i \in DOMAIN prefav.icons :
              /\ prefav.icons[i].url = normalize_url(last.tags)
              /\ prefav.icons[i].expire_ms # last.x
       \/ /\ prefav.icons # <<>>
          /\ \A i \in DOMAIN prefav.icons : prefav.icons[i].url # normalize_url(last.tags)

(***************************************************************************)
(* Tags across dedupe.                                                     *)

\* the stored urls, stripped, that some Link of d outside the tag tree has
KeptUrls(d) ==
    {JoinedUrl(d, i) : i \in {j \in LinkIds(d) : ~_descends_from(d, j, root_ids.tags)}}
        \ {<<>>}

\* the tag names read_all reports for url in d
ReportedTags(d, url) == UNION {e.tags : e \in EntriesOf(d, url)}

\* the tag names that point at any Place row of d whose url is url
TagsOfUrl(d, url) ==
    UNION {_tag_names_by_fk(d, p) : p \in {q \in PlaceIds(d) : Strip(d.places[q].url) = url}}

\* C39: dedupe loses no tag membership: for every url that keeps a Link
\* outside the tag tree, the tag names read_all reports for it after dedupe
\* are the tag names that pointed at any Place row of that url before.
C39_DedupeKeepsTagNames ==
    (last.op = "dedupe" /\ last.err = "none") =>
        \A url \in KeptUrls(db) : ReportedTags(db, url) = TagsOfUrl(pre, url)

(***************************************************************************)
(* dedupe twice.                                                           *)

\* C40: dedupe is idempotent: a second call made immediately after the
\* first returns 0 and changes no row, whatever the initial store.
C40_SecondDedupeRemovesNothing ==
    (prev.op = "dedupe" /\ prev.err = "none" /\ last.op = "dedupe") =>
        /\ last.err = "none"
        /\ last.removed = 0
        /\ db = pre

\* a second call after a first one that merged Places and deleted links
C40_Witness ==
    /\ prev.op = "dedupe"
    /\ last.op = "dedupe"
    /\ prev.removed >= 2
    /\ PlaceIds(db) # {}
    /\ Cardinality(LinkIds(db)) < MaxSeedLinks
    /\ LinkIds(db) # {}

(***************************************************************************)
(* Termination of the ancestor walks.                                      *)

\* the ids a walk from node can visit: node and the parents that rows name
Visitable(d, node) == {node} \cup {d.bookmarks[i].parent : i \in BookmarkIds(d)}

\* only visitable ids are visited, and seen holds the ids visited so far: a
\* walk makes no more iterations than there are visitable ids, plus one
WalkVisitsEachIdOnce ==
    /\ walk.seen \subseteq Visitable(db, walk.node) \ {0}
    /\ walk.pc = "loop" => walk.current \in Visitable(db, walk.node) \cup {0}

\* a finished walk has returned what the method returns
WalkResult ==
    walk.pc = "done" =>
        walk.result = CASE walk.fn = "_descends_from" ->
                               _descends_from(db, walk.node, walk.ancestor)
                        [] walk.fn = "_nearest_tag_folder_name" ->
                               _nearest_tag_folder_name(db, walk.node, walk.ancestor)
                        [] walk.fn = "_folder_path" -> _folder_path(db, walk.node)

\* C37: _folder_path, _descends_from and _nearest_tag_folder_name terminate
\* on every parent map, also when parent pointers form a cycle or name no
\* row: a walk that is in its loop returns, after visiting each id at most
\* once.
C37_WalksTerminate ==
    /\ [](WalkVisitsEachIdOnce /\ WalkResult)
    /\ (walk.pc = "loop") ~> (walk.pc = "done")

\* a walk that ended because it came back to an id of its own path
C37_Witness ==
    /\ walk.pc = "done"
    /\ walk.current # 0
    /\ walk.current \in walk.seen
    /\ Cardinality(walk.seen) >= 2
====
